---- MODULE Spec2Model ----
(***************************************************************************)
(* Tiddlyflare: the storage and coordination engine of durable-objects.ts  *)
(* (src/unnamed/part_005) with the chunk helpers of shared.ts              *)
(* (src/unnamed/part_000).                                                 *)
(*                                                                         *)
(* Two kinds of Durable Object are modelled: TenantDO (one per tenant      *)
(* name, holding the index table `wikis`) and WikiDO (one per document id, *)
(* holding `wiki_info` and the chunk table `wiki_versions`).               *)
(*                                                                         *)
(* A byte is identified by the ingest that supplied it and its offset in   *)
(* that ingest's source: the code never inspects byte values, and distinct *)
(* identities make every loss, duplication, reordering or mixing of chunks *)
(* visible. Buffers are kept as runs of consecutive bytes, which lets the  *)
(* sizes of the source (1,500,000 and 5,000,000 bytes) stand as they are.  *)
(*                                                                         *)
(* One action is one run of a handler between two suspension points at     *)
(* which the runtime may deliver another event to the same object: the     *)
(* awaits on the request body stream and on a call to another object.      *)
(* Awaits on the object's own storage keep the input gate closed and are   *)
(* part of the step.                                                       *)
(***************************************************************************)
EXTENDS Integers, Sequences, FiniteSets, TLC

\* ------------------------------------------------------------------ bounds
MaxNow == 2          \* Date.now() is read at most this many times
MaxFaults == 1       \* faults in one behaviour: storage calls that throw,
                     \* request bodies that fail, evictions of an object

\* --------------------------------------------------------- program constants
RETAINED_VERSIONS_NUM == 10
CHUNK_SIZE_MAX == 1500000
BYTE_SIZE_ATONCE_THRESHOLD == 5000000
TemplateLen == 2430000    \* empty.html, "2.43MB": two chunks
WikiLastMigration == 1
TenantLastMigration == 2

NULL == 0            \* SQL NULL in the INTEGER column chunksTotal
NoHint == -1         \* contentLength?: number left undefined

Docs == {"d1", "d2"}          \* Durable Object ids of WikiDO = wiki ids
Tenants == {"T1", "T2"}       \* tenant ids; idFromName(t) names TenantDO t
Names == {"Notes"}
WikiTypes == {"tw5", "md"}    \* "tw5" is the one recognised variant
UpsertCalls == {"u1"}         \* frames of upsert calls that may be in flight

VARIABLES
    now,            \* the wall clock read by Date.now()
    seq,            \* number of byte sources handed out so far (byte tags)
    \* ---- WikiDO, persisted (ctx.storage)
    wikiSchema,     \* [Docs -> 0..1] highest applied migration id (0: no tables)
    wiki_info,      \* [Docs -> set of rows]
    wiki_versions,  \* [Docs -> set of rows]
    \* ---- WikiDO, in memory
    wikiAlive,      \* [Docs -> BOOLEAN] the constructor has completed
    wikiMigrated,   \* [Docs -> 0..1] this._migrations' last applied id
    fileSrc,        \* [Docs -> cache] this.fileSrc
    wikiId,         \* [Docs -> STRING] this.wikiId
    wikiTenantId,   \* [Docs -> STRING] this.tenantId of WikiDO
    up,             \* [UpsertCalls -> frame] upsert calls in flight
    \* ---- TenantDO, persisted
    tenantSchema,   \* [Tenants -> 0..2]
    tenant_info,    \* [Tenants -> set of tenant ids]
    wikis,          \* [Tenants -> set of index rows]
    tenantApplied,  \* [Tenants -> sequence of ids] the migrations whose statements
                    \* have taken effect on the store, in that order
    \* ---- TenantDO, in memory
    tenantMigrated, \* [Tenants -> 0..2]
    tenantId,       \* [Tenants -> STRING] this.tenantId of TenantDO
    tcall,          \* [TenantCalls -> frame] createWiki / deleteWiki in flight
    \* ---- environment
    nextDoc,        \* ids handed out by WIKI.newUniqueId()
    faults,         \* faults injected so far
    resp,           \* the latest value returned (or error thrown) by a method
    \* ---- history
    hist            \* [Docs -> record] what the properties refer to

vars == <<now, seq, wikiSchema, wiki_info, wiki_versions, wikiAlive,
          wikiMigrated, fileSrc, wikiId, wikiTenantId, up, tenantSchema,
          tenant_info, wikis, tenantApplied, tenantMigrated, tenantId, tcall,
          nextDoc, faults, resp, hist>>

wikiStore == <<wikiSchema, wiki_info, wiki_versions>>
wikiMemory == <<wikiAlive, wikiMigrated, fileSrc, wikiId, wikiTenantId>>
tenantStore == <<tenantSchema, tenant_info, wikis, tenantApplied>>
tenantMemory == <<tenantMigrated, tenantId>>

\* ------------------------------------------------------------- shared.ts
Min(a, b) == IF a < b THEN a ELSE b

Max(S) == CHOOSE x \in S : \A y \in S : y <= x

Ceil(a, b) == (a + b - 1) \div b

\* ---- byte buffers
\* A buffer is the sequence of its runs [tag, lo, hi]: the bytes lo..hi of the
\* source of ingest `tag`, in canonical form (no empty run, no two adjacent
\* runs that continue each other), so that two buffers are equal exactly when
\* they hold the same bytes in the same order.
Bytes(tag, n) == IF n = 0 THEN <<>> ELSE <<[tag |-> tag, lo |-> 1, hi |-> n]>>

RECURSIVE byteLength(_)
byteLength(b) ==
    IF b = <<>> THEN 0 ELSE Head(b).hi - Head(b).lo + 1 + byteLength(Tail(b))

\* a followed by b
Concat(a, b) ==
    IF a = <<>> THEN b
    ELSE IF b = <<>> THEN a
    ELSE LET x == a[Len(a)]
             y == Head(b)
         IN  IF x.tag = y.tag /\ x.hi + 1 = y.lo
             THEN SubSeq(a, 1, Len(a) - 1) \o <<[x EXCEPT !.hi = y.hi]>> \o Tail(b)
             ELSE a \o b

\* bb.subarray(begin, end): the bytes at offsets begin .. end - 1
RECURSIVE subarray(_, _, _)
subarray(bb, begin, end) ==
    IF bb = <<>> \/ end <= begin THEN <<>>
    ELSE LET r == Head(bb)
             n == r.hi - r.lo + 1
         IN  IF begin >= n THEN subarray(Tail(bb), begin - n, end - n)
             ELSE IF end <= n THEN <<[r EXCEPT !.lo = r.lo + begin, !.hi = r.lo + end - 1]>>
             ELSE Concat(<<[r EXCEPT !.lo = r.lo + begin]>>,
                         subarray(Tail(bb), 0, end - n))

RECURSIVE chunkifyFrom(_, _, _, _)
chunkifyFrom(bb, chunkSz, readidx, left) ==
    IF left = 0 THEN <<>>
    ELSE LET end == Min(readidx + chunkSz, byteLength(bb))
         IN  <<subarray(bb, readidx, end)>>
                 \o chunkifyFrom(bb, chunkSz, end, left - 1)

\* (variant: Math.floor for the number of chunks)
chunkifyFloor(bb, chunkSz) ==
    chunkifyFrom(bb, chunkSz, 0, byteLength(bb) \div chunkSz)

chunkify(bb, chunkSz) ==
    chunkifyFrom(bb, chunkSz, 0, Ceil(byteLength(bb), chunkSz))

RECURSIVE mergeArrayBuffers(_)
mergeArrayBuffers(chunks) ==
    IF chunks = <<>> THEN <<>>
    ELSE Concat(Head(chunks), mergeArrayBuffers(Tail(chunks)))

\* ------------------------------------------------------- SQL on wiki_versions
\* (variant: every row carries its own index as chunksTotal)
RowMarkedLast(id, ts, src, idx, total) ==
    [wikiId |-> id, tsMs |-> ts, src |-> src, chunkIdx |-> idx, chunksTotal |-> idx]

Row(id, ts, src, idx, total) ==
    [wikiId |-> id, tsMs |-> ts, src |-> src, chunkIdx |-> idx, chunksTotal |-> total]

\* INSERT OR REPLACE under PRIMARY KEY (wikiId, tsMs, chunkIdx)
InsertOrReplace(rows, r) ==
    {x \in rows : ~(x.wikiId = r.wikiId /\ x.tsMs = r.tsMs /\ x.chunkIdx = r.chunkIdx)}
        \cup {r}

RECURSIVE InsertAll(_, _)
InsertAll(rows, rs) ==
    IF rs = <<>> THEN rows ELSE InsertAll(InsertOrReplace(rows, Head(rs)), Tail(rs))

\* (variant: any row of the document counts as the last of its version)
CompleteRowsAnyChunk(rows, id) == {r \in rows : r.wikiId = id}

\* WHERE wikiId = ? AND chunkIdx = chunksTotal  (NULL = x is never true)
CompleteRows(rows, id) ==
    {r \in rows : r.wikiId = id /\ r.chunksTotal # NULL /\ r.chunkIdx = r.chunksTotal}

\* SELECT DISTINCT tsMs ... ORDER BY tsMs DESC LIMIT n, as the set of its values
RECURSIVE TopTs(_, _)
TopTs(tss, n) ==
    IF n = 0 \/ tss = {} THEN {}
    ELSE {Max(tss)} \cup TopTs(tss \ {Max(tss)}, n - 1)

\* SELECT src ... WHERE wikiId = ? AND tsMs = ? ORDER BY chunkIdx ASC
RECURSIVE SrcAscFrom(_, _)
SrcAscFrom(rs, lastIdx) ==
    IF \A r \in rs : r.chunkIdx <= lastIdx THEN <<>>
    ELSE LET nxt == CHOOSE r \in rs : /\ r.chunkIdx > lastIdx
                                     /\ \A q \in rs : q.chunkIdx > lastIdx
                                                        => r.chunkIdx <= q.chunkIdx
         IN  <<nxt.src>> \o SrcAscFrom(rs, nxt.chunkIdx)

\* (variant: the chunk query without `AND tsMs = ?`)
ChunksCursorAnyVersion(rows, id, ts) == SrcAscFrom({r \in rows : r.wikiId = id}, 0)

ChunksCursor(rows, id, ts) ==
    SrcAscFrom({r \in rows : r.wikiId = id /\ r.tsMs = ts}, 0)


\* (variant: no retention step)
RetainEverything(rows, id) == rows

\* (variant: retention deletes only the rows of older complete versions)
RetainLatestCompleteOnly(rows, id) ==
    LET all == {r.tsMs : r \in CompleteRows(rows, id)}
        tss == TopTs(all, RETAINED_VERSIONS_NUM)
    IN  IF Cardinality(tss) < RETAINED_VERSIONS_NUM THEN rows
        ELSE {r \in rows : ~(r.wikiId = id /\ r.tsMs \in all \ tss)}

\* (variant: one version pruned per upsert: the rows of the oldest complete
\* version go when more than RETAINED_VERSIONS_NUM are there)
RetainDropsOne(rows, id) ==
    LET all == {r.tsMs : r \in CompleteRows(rows, id)}
    IN  IF Cardinality(all) <= RETAINED_VERSIONS_NUM THEN rows
        ELSE {r \in rows :
                ~(r.wikiId = id /\ \A t \in all : r.tsMs <= t)}

\* (variant: ORDER BY tsMs ASC, keeping the oldest complete versions and
\* deleting every row newer than the newest of them)
RetainOldest(rows, id) ==
    LET all == {r.tsMs : r \in CompleteRows(rows, id)}
        tss == all \ TopTs(all, Cardinality(all) - RETAINED_VERSIONS_NUM)
    IN  IF Cardinality(all) < RETAINED_VERSIONS_NUM THEN rows
        ELSE {r \in rows : ~(r.wikiId = id /\ r.tsMs > Max(tss))}

\* Retention step of upsert: keep the RETAINED_VERSIONS_NUM latest complete
\* versions, delete every row older than the oldest of them.
RetainLatest(rows, id) ==
    LET tss == TopTs({r.tsMs : r \in CompleteRows(rows, id)}, RETAINED_VERSIONS_NUM)
    IN  IF Cardinality(tss) < RETAINED_VERSIONS_NUM THEN rows
        ELSE LET oldest == CHOOSE t \in tss : \A x \in tss : t <= x
             IN  {r \in rows : ~(r.wikiId = id /\ r.tsMs < oldest)}

\* ------------------------------------------------------ SchemaMigrations
\* runAll(): applies the migrations above the stored high-water mark and
\* remembers in memory that nothing is left to run.
\* (variant: the high-water mark written before the statements have succeeded)
RunAllMarksFirst(mem, stored, last, failAt) ==
    IF mem = last
    THEN [mem |-> mem, stored |-> stored, applied |-> <<>>, ok |-> TRUE]
    ELSE LET fails == failAt > stored /\ failAt <= last
             upto == IF fails THEN failAt - 1 ELSE last
         IN  [mem |-> IF fails THEN mem ELSE last,
              stored |-> IF fails THEN failAt ELSE IF stored < upto THEN upto ELSE stored,
              applied |-> [i \in 1..(upto - stored) |-> stored + i],
              ok |-> ~fails]

\* (variant: a runner that runs every migration of its list on each call)
RunAllFromTheStart(mem, stored, last, failAt) ==
    [mem |-> last, stored |-> last, applied |-> [i \in 1..last |-> i], ok |-> TRUE]

\* runAll() in which the statements of migration failAt throw (0: none does).
\* The migrations above the mark run in ascending order, each in one atomic
\* unit; the one that throws leaves nothing, and the mark stays below it.
RunAllThrows(mem, stored, last, failAt) ==
    IF mem = last
    THEN [mem |-> mem, stored |-> stored, applied |-> <<>>, ok |-> TRUE]
    ELSE LET fails == failAt > stored /\ failAt <= last
             upto == IF fails THEN failAt - 1 ELSE last
         IN  [mem |-> IF fails THEN mem ELSE last,
              stored |-> IF stored < upto THEN upto ELSE stored,
              applied |-> [i \in 1..(upto - stored) |-> stored + i],
              ok |-> ~fails]

RunAll(mem, stored, last) == RunAllThrows(mem, stored, last, 0)

\* --------------------------------------------------------------- values
NoCache == [has |-> FALSE, bytes |-> <<>>]
Cached(b) == [has |-> TRUE, bytes |-> b]

IdleFrame ==
    [pc |-> "idle", doc |-> "", tsMs |-> 0, tag |-> 0, whole |-> <<>>, rest |-> <<>>,
     bufferArrays |-> <<>>, bufferArraysTotal |-> 0, chunkIdx |-> 0,
     \* history: what getFileSrc served and what the store held when the call
     \* began, whether another call ran on the object meanwhile
     served |-> [status |-> 0, body |-> <<>>],
     stored |-> [status |-> 0, body |-> <<>>],
     done |-> 0, mixed |-> FALSE, bound |-> FALSE]

\* Frames of createWiki / deleteWiki calls: one per tenant object, named after
\* it, and one more for a call that overlaps another on the same object.
TenantCalls == Tenants \cup {"c2"}

IdleCall == [pc |-> "idle", op |-> "", tenantId |-> "", wikiId |-> "", name |-> "",
             wikiType |-> "", ok |-> FALSE, createdAtMs |-> 0,
             \* history: the document was bound to another tenant when called
             foreign |-> FALSE]

NoHist == [done |-> 0,          \* versions completed since the last wipe
           versions |-> {},     \* their tsMs
           saved |-> NoCache,   \* bytes of the latest upsert that returned ok
           owner |-> "",        \* the tenant a successful create bound the id to
           oks |-> 0,           \* upserts that returned ok since the last wipe
           \* the ingests that failed or were interrupted and left rows: their
           \* tsMs and the value of `oks` at that time
           failed |-> {},
           \* the latest upsert cut short before its terminal row: its byte
           \* tag, and `done`, the store's answer and the binding when it began
           cut |-> [has |-> FALSE, tag |-> 0, done |-> 0, bound |-> FALSE,
                    stored |-> [status |-> 0, body |-> <<>>]]]

Resp(op, who, ok, status, body) ==
    [op |-> op, who |-> who, ok |-> ok, status |-> status, body |-> body,
     tenantId |-> "", wikiId |-> "", name |-> "", list |-> {}, mixed |-> FALSE,
     served |-> [status |-> 0, body |-> <<>>],
     \* history: the storage call that threw, and how many statements of the
     \* transaction that threw had been executed
     fault |-> "", undone |-> 0,
     \* the buffers start() of the response stream has enqueued, how many of
     \* them the consumer has read, and the flag cancel() sets
     parts |-> <<>>, taken |-> 0, cancelled |-> FALSE]

\* ------------------------------------------------------ WikiDO.getFileSrc
\* (variant: the query with ORDER BY tsMs ASC)
ChunksInfoOldest(rows, id) ==
    LET c == CompleteRows(rows, id)
    IN  {r \in c : \A q \in c : r.tsMs <= q.tsMs}

\* The rows the "latest complete version" query may return (LIMIT 1).
ChunksInfo(rows, id) ==
    LET c == CompleteRows(rows, id)
    IN  {r \in c : \A q \in c : q.tsMs <= r.tsMs}

\* (variant: getFileSrc without the identity guard)
GetFileSrcUnguarded(d, id) ==
    IF fileSrc[d].has
    THEN {[status |-> 200, body |-> fileSrc[d].bytes, cache |-> fileSrc[d],
           read |-> FALSE, parts |-> <<fileSrc[d].bytes>>]}
    ELSE IF ChunksInfo(wiki_versions[d], d) = {}
    THEN {[status |-> 500, body |-> <<>>, cache |-> fileSrc[d], read |-> TRUE,
           parts |-> <<>>]}
    ELSE {[status |-> 200,
           body |-> mergeArrayBuffers(ChunksCursor(wiki_versions[d], d, info.tsMs)),
           cache |-> fileSrc[d], read |-> TRUE,
           parts |-> ChunksCursor(wiki_versions[d], d, info.tsMs)]
          : info \in ChunksInfo(wiki_versions[d], d)}

\* (variant: the cache decision taken on the size of the merged content)
GetFileSrcBySize(d, id) ==
    IF wikiId[d] = "" \/ wikiId[d] # id
    THEN {[status |-> 400, body |-> <<>>, cache |-> fileSrc[d], read |-> FALSE,
           parts |-> <<>>]}
    ELSE IF fileSrc[d].has
    THEN {[status |-> 200, body |-> fileSrc[d].bytes, cache |-> fileSrc[d],
           read |-> FALSE, parts |-> <<fileSrc[d].bytes>>]}
    ELSE IF ChunksInfo(wiki_versions[d], id) = {}
    THEN {[status |-> 500, body |-> <<>>, cache |-> fileSrc[d], read |-> TRUE,
           parts |-> <<>>]}
    ELSE {LET chunks == ChunksCursor(wiki_versions[d], id, info.tsMs)
          IN  IF byteLength(mergeArrayBuffers(chunks)) < BYTE_SIZE_ATONCE_THRESHOLD
              THEN [status |-> 200, body |-> mergeArrayBuffers(chunks),
                    cache |-> Cached(mergeArrayBuffers(chunks)), read |-> TRUE,
                    parts |-> <<mergeArrayBuffers(chunks)>>]
              ELSE [status |-> 200, body |-> mergeArrayBuffers(chunks),
                    cache |-> fileSrc[d], read |-> TRUE, parts |-> chunks]
          : info \in ChunksInfo(wiki_versions[d], id)}

\* What getFileSrc(id) on object d answers in the current state, and the cache
\* it leaves: status 400 for the identity guard, 500 when .one() throws.
GetFileSrcOutcomes(d, id) ==
    IF wikiId[d] = "" \/ wikiId[d] # id
    THEN {[status |-> 400, body |-> <<>>, cache |-> fileSrc[d], read |-> FALSE,
           parts |-> <<>>]}
    ELSE IF fileSrc[d].has
    THEN {[status |-> 200, body |-> fileSrc[d].bytes, cache |-> fileSrc[d],
           read |-> FALSE, parts |-> <<fileSrc[d].bytes>>]}
    ELSE IF ChunksInfo(wiki_versions[d], id) = {}
    THEN {[status |-> 500, body |-> <<>>, cache |-> fileSrc[d], read |-> TRUE,
           parts |-> <<>>]}
    ELSE {LET chunks == ChunksCursor(wiki_versions[d], id, info.tsMs)
          IN  IF info.chunksTotal * CHUNK_SIZE_MAX < BYTE_SIZE_ATONCE_THRESHOLD
              THEN [status |-> 200, body |-> mergeArrayBuffers(chunks),
                    cache |-> Cached(mergeArrayBuffers(chunks)), read |-> TRUE,
                    parts |-> <<mergeArrayBuffers(chunks)>>]
              ELSE [status |-> 200, body |-> mergeArrayBuffers(chunks),
                    cache |-> fileSrc[d], read |-> TRUE, parts |-> chunks]
          : info \in ChunksInfo(wiki_versions[d], id)}

\* ------------------------------------------- consumer of the response stream
\* The consumer of the latest getFileSrc response reads the next buffer that
\* start() has enqueued.
ConsumerRead ==
    /\ resp.op = "getFileSrc" /\ resp.status = 200
    /\ ~resp.cancelled
    /\ resp.taken < Len(resp.parts)
    /\ resp' = [resp EXCEPT !.taken = @ + 1]
    /\ UNCHANGED <<now, seq, wikiStore, wikiMemory, up, tenantStore, tenantMemory,
                   tcall, nextDoc, faults, hist>>

\* The consumer cancels before it has read everything: cancel() sets the flag
\* that the loop of start() tests.
Cancel ==
    /\ resp.op = "getFileSrc" /\ resp.status = 200
    /\ ~resp.cancelled
    /\ resp.taken < Len(resp.parts)
    /\ resp' = [resp EXCEPT !.cancelled = TRUE]
    /\ UNCHANGED <<now, seq, wikiStore, wikiMemory, up, tenantStore, tenantMemory,
                   tcall, nextDoc, faults, hist>>

\* The object d runs and is bound to its own id (constructor and create).
Bound(d) == wikiAlive[d] /\ wikiId[d] = d

\* The answer of getFileSrc with the cache dropped: what the store holds.
StoredAnswers(d) ==
    IF ChunksInfo(wiki_versions[d], d) = {}
    THEN {[status |-> 500, body |-> <<>>]}
    ELSE {[status |-> 200,
           body |-> mergeArrayBuffers(ChunksCursor(wiki_versions[d], d, info.tsMs))]
          : info \in ChunksInfo(wiki_versions[d], d)}

Answer(o) == [status |-> o.status, body |-> o.body]

\* Every other call running on d marks the upsert frames suspended there.
Mix(d) == [u \in DOMAIN up |->
              IF up[u].pc # "idle" /\ up[u].doc = d
              THEN [up[u] EXCEPT !.mixed = TRUE] ELSE up[u]]

GetFileSrc(d, id) ==
    /\ wikiAlive[d]
    /\ \E o \in GetFileSrcOutcomes(d, id) :
          /\ fileSrc' = [fileSrc EXCEPT ![d] = o.cache]
          /\ IF o.read
             THEN LET m == RunAll(wikiMigrated[d], wikiSchema[d], WikiLastMigration)
                  IN  /\ wikiMigrated' = [wikiMigrated EXCEPT ![d] = m.mem]
                      /\ wikiSchema' = [wikiSchema EXCEPT ![d] = m.stored]
             ELSE UNCHANGED <<wikiMigrated, wikiSchema>>
          /\ resp' = [Resp("getFileSrc", d, o.status = 200, o.status, o.body)
                        EXCEPT !.wikiId = id, !.parts = o.parts]
    /\ up' = Mix(d)
    /\ UNCHANGED <<now, seq, wiki_info, wiki_versions, wikiAlive, wikiId,
                   wikiTenantId, tenantStore, tenantMemory, tcall, nextDoc,
                   faults, hist>>


\* ----------------------------------------------------------- WikiDO.upsert
TablesExist(d) == wikiSchema[d] >= 1

\* contentLength && contentLength < BYTE_SIZE_ATONCE_THRESHOLD
TakesBufferedPath(hint) ==
    hint # NoHint /\ hint # 0 /\ hint < BYTE_SIZE_ATONCE_THRESHOLD

\* (variant: a reader that returns as soon as 1,000,000 bytes are there)
ReadSomeBytes(rest) == subarray(rest, 0, Min(1000000, byteLength(rest)))

\* readAtLeast(CHUNK_SIZE_MAX, new Uint8Array(CHUNK_SIZE_MAX)): a full buffer,
\* or what is left of the stream when that is less.
ReadAtLeast(rest) == subarray(rest, 0, Min(CHUNK_SIZE_MAX, byteLength(rest)))

AfterRead(rest) == subarray(rest, byteLength(ReadAtLeast(rest)), byteLength(rest))

\* rows of the buffered path and of create: every row carries chunks.length
RECURSIVE BatchRows(_, _, _, _)
BatchRows(id, ts, chunks, i) ==
    IF i > Len(chunks) THEN <<>>
    ELSE <<Row(id, ts, chunks[i], i, Len(chunks))>> \o BatchRows(id, ts, chunks, i + 1)

\* (variant: the statements of a throwing transaction stay)
TransactionKept(before, written) == written

\* A statement throws inside transactionSync: every statement of the
\* transaction is undone.
RolledBack(before, written) == before

\* (variant: a throwing statement undoes the statements executed before it)
StatementsUndone(before, written) == before

\* A statement throws outside the transaction that wrote the rows: the rows
\* written so far stay.
LeftInPlace(before, written) == written

\* History: the ingest of timestamp ts ended without ok; it is remembered
\* when it leaves rows.
LeftBehind(failed, rows, d, ts, oks) ==
    IF \E r \in rows : r.wikiId = d /\ r.tsMs = ts
    THEN failed \cup {[tsMs |-> ts, oks |-> oks]}
    ELSE failed

\* The call of frame u ends: it returns ok or throws, leaving `rows` and
\* `cache`; `complete` tells whether it wrote the terminal row of its version.
UpsertEnds(u, rows, cache, ok, complete, fault, undone) ==
    LET fr == up[u]
        d == fr.doc
    IN  /\ wiki_versions' = [wiki_versions EXCEPT ![d] = rows]
        /\ fileSrc' = [fileSrc EXCEPT ![d] = cache]
        /\ up' = [up EXCEPT ![u] = IdleFrame]
        /\ resp' = [Resp("upsert", d, ok, IF ok THEN 200 ELSE 500, fr.whole)
                      EXCEPT !.wikiId = d, !.mixed = fr.mixed, !.served = fr.served,
                             !.fault = fault, !.undone = undone]
        /\ hist' = [hist EXCEPT
                      ![d].done = IF complete THEN @ + 1 ELSE @,
                      ![d].versions = IF complete THEN @ \cup {fr.tsMs} ELSE @,
                      ![d].saved = IF ok THEN Cached(fr.whole) ELSE @,
                      ![d].oks = IF ok THEN @ + 1 ELSE @,
                      ![d].failed = IF ok THEN @
                                    ELSE LeftBehind(@, rows, d, fr.tsMs, hist[d].oks),
                      ![d].cut = IF complete THEN @
                                 ELSE [has |-> TRUE, tag |-> fr.tag, done |-> fr.done,
                                       bound |-> fr.bound, stored |-> fr.stored]]

\* upsert up to its first await on the body; tsMs is what Date.now() returns.
UpsertBeginAt(u, d, n, hint, tsMs) ==
    /\ up[u].pc = "idle"
    /\ wikiAlive[d]
    /\ LET m == RunAll(wikiMigrated[d], wikiSchema[d], WikiLastMigration)
           bytes == Bytes(seq + 1, n)
       IN  /\ wikiMigrated' = [wikiMigrated EXCEPT ![d] = m.mem]
           /\ wikiSchema' = [wikiSchema EXCEPT ![d] = m.stored]
           /\ now' = tsMs
           /\ seq' = seq + 1
           /\ fileSrc' = [fileSrc EXCEPT ![d] = NoCache]
           /\ up' = [Mix(d) EXCEPT ![u] =
                       [IdleFrame EXCEPT
                          !.pc = IF TakesBufferedPath(hint) THEN "bytes" ELSE "read",
                          !.doc = d, !.tsMs = tsMs, !.tag = seq + 1,
                          !.whole = bytes, !.rest = bytes,
                          !.served = Answer(CHOOSE o \in GetFileSrcOutcomes(d, d) : TRUE),
                          !.stored = CHOOSE a \in StoredAnswers(d) : TRUE,
                          !.done = hist[d].done,
                          !.bound = wikiId[d] = d]]
    /\ UNCHANGED <<wiki_info, wiki_versions, wikiAlive, wikiId, wikiTenantId,
                   tenantStore, tenantMemory, tcall, nextDoc, faults, resp, hist>>

\* upsert called when the clock has moved on since it was last read
UpsertBegin(u, d, n, hint) == UpsertBeginAt(u, d, n, hint, now + 1)

\* Buffered path, after `await new Response(bytesStream).bytes()`.
\* fault: "none", or the step whose storage call throws.
UpsertBuffered(u, fault) ==
    LET fr == up[u]
        d == fr.doc
        chunks == chunkify(fr.whole, CHUNK_SIZE_MAX)
        written == InsertAll(wiki_versions[d], BatchRows(d, fr.tsMs, chunks, 1))
    IN  /\ fr.pc = "bytes"
        /\ fault \in {"none", "write", "retain"}
        /\ fault # "none" => faults < MaxFaults
        /\ faults' = IF fault = "none" THEN faults ELSE faults + 1
        /\ IF ~TablesExist(d)
           THEN /\ fault = "none"
                /\ UpsertEnds(u, wiki_versions[d], fileSrc[d], FALSE, FALSE,
                              "notable", 0)
           ELSE IF fault = "write"
           THEN \* one of the INSERTs throws: transactionSync rolls back
                \E k \in 0..(Len(chunks) - 1) :
                    UpsertEnds(u, RolledBack(wiki_versions[d], written), fileSrc[d],
                               FALSE, FALSE, fault, k)
           ELSE IF fault = "retain"
           THEN UpsertEnds(u, LeftInPlace(wiki_versions[d], written),
                           Cached(fr.whole), FALSE, chunks # <<>>, fault, 0)
           ELSE UpsertEnds(u, RetainLatest(written, d), Cached(fr.whole), TRUE,
                           chunks # <<>>, fault, 0)
        /\ UNCHANGED <<now, seq, wikiSchema, wiki_info, wikiAlive, wikiMigrated,
                       wikiId, wikiTenantId, tenantStore, tenantMemory, tcall, nextDoc>>

\* Streaming path: one turn of the loop after `await reader.readAtLeast(...)`
\* resolved, up to the next await or to the return.
UpsertRead(u, fault) ==
    LET fr == up[u]
        d == fr.doc
        done == fr.rest = <<>>
        value == ReadAtLeast(fr.rest)
        bufferArrays == IF done THEN fr.bufferArrays ELSE Append(fr.bufferArrays, value)
        bufferArraysTotal == IF done THEN fr.bufferArraysTotal
                             ELSE fr.bufferArraysTotal + byteLength(value)
        chunk == mergeArrayBuffers(bufferArrays)
        chunkIdx == fr.chunkIdx + 1
        withChunk == InsertOrReplace(wiki_versions[d],
                                     Row(d, fr.tsMs, chunk, chunkIdx, NULL))
        withLast == InsertOrReplace(withChunk,
                                    Row(d, fr.tsMs, <<>>, chunkIdx + 1, chunkIdx + 1))
    IN  /\ fr.pc = "read"
        /\ fault \in {"none", "chunk", "last", "retain"}
        /\ fault # "none" => faults < MaxFaults
        /\ faults' = IF fault = "none" THEN faults ELSE faults + 1
        /\ IF ~done /\ bufferArraysTotal < CHUNK_SIZE_MAX
           THEN \* continue
                /\ fault = "none"
                /\ up' = [up EXCEPT ![u].rest = AfterRead(fr.rest),
                                    ![u].bufferArrays = bufferArrays,
                                    ![u].bufferArraysTotal = bufferArraysTotal]
                /\ UNCHANGED <<wiki_versions, fileSrc, resp, hist>>
           ELSE IF ~TablesExist(d)
           THEN /\ fault = "none"
                /\ UpsertEnds(u, wiki_versions[d], fileSrc[d], FALSE, FALSE,
                              "notable", 0)
           ELSE IF fault = "chunk"
           THEN UpsertEnds(u, wiki_versions[d], fileSrc[d], FALSE, FALSE, fault, 0)
           ELSE IF ~done
           THEN /\ fault = "none"
                /\ wiki_versions' = [wiki_versions EXCEPT ![d] = withChunk]
                /\ up' = [up EXCEPT ![u].rest = AfterRead(fr.rest),
                                    ![u].bufferArrays = <<>>,
                                    ![u].bufferArraysTotal = 0,
                                    ![u].chunkIdx = chunkIdx]
                /\ UNCHANGED <<fileSrc, resp, hist>>
           ELSE IF fault = "last"
           THEN UpsertEnds(u, LeftInPlace(wiki_versions[d], withChunk), fileSrc[d],
                           FALSE, FALSE, fault, 0)
           ELSE IF fault = "retain"
           THEN UpsertEnds(u, LeftInPlace(wiki_versions[d], withLast), fileSrc[d],
                           FALSE, TRUE, fault, 0)
           ELSE UpsertEnds(u, RetainLatest(withLast, d), fileSrc[d], TRUE, TRUE,
                           fault, 0)
        /\ UNCHANGED <<now, seq, wikiSchema, wiki_info, wikiAlive, wikiMigrated,
                       wikiId, wikiTenantId, tenantStore, tenantMemory, tcall, nextDoc>>

\* The request body fails (the client goes away): the pending await throws.
UpsertAbort(u) ==
    /\ up[u].pc \in {"bytes", "read"}
    /\ faults < MaxFaults
    /\ faults' = faults + 1
    /\ UpsertEnds(u, wiki_versions[up[u].doc], fileSrc[up[u].doc], FALSE, FALSE,
                  "body", 0)
    /\ UNCHANGED <<now, seq, wikiSchema, wiki_info, wikiAlive, wikiMigrated,
                   wikiId, wikiTenantId, tenantStore, tenantMemory, tcall,
                   nextDoc>>


\* ----------------------------------------------------------- WikiDO.create
\* The effect of create(tenantId, wikiId, name, wikiType) on object d, called
\* by TenantDO.createWiki with wikiId = d. fault: "none", "fetch" (the template
\* fetch fails) or "write" (the transaction throws).
CreateReturnsOk(wikiType, fault) == wikiType = "tw5" /\ fault = "none"

WikiCreate(d, tenant, name, wikiType, fault) ==
    IF wikiType # "tw5" \/ fault = "fetch"
    THEN UNCHANGED <<now, seq, wikiStore, wikiMigrated, fileSrc, wikiId,
                     wikiTenantId, up, hist>>
    ELSE LET bytes == Bytes(seq + 1, TemplateLen)
             chunks == chunkify(bytes, CHUNK_SIZE_MAX)
             tsMs == now + 1
             m == RunAll(wikiMigrated[d], wikiSchema[d], WikiLastMigration)
         IN  /\ now' = tsMs
             /\ seq' = seq + 1
             /\ fileSrc' = [fileSrc EXCEPT ![d] = Cached(bytes)]
             /\ wikiMigrated' = [wikiMigrated EXCEPT ![d] = m.mem]
             /\ wikiSchema' = [wikiSchema EXCEPT ![d] = m.stored]
             /\ up' = Mix(d)
             /\ IF fault = "write" \/ m.stored < WikiLastMigration
                THEN \* the transaction throws: a statement failed, or no table
                     UNCHANGED <<wiki_info, wiki_versions, wikiId, wikiTenantId, hist>>
                ELSE /\ wiki_info' = [wiki_info EXCEPT ![d] =
                            {r \in @ : r.wikiId # d} \cup
                            {[wikiId |-> d, tenantId |-> tenant, name |-> name,
                              wikiType |-> wikiType]}]
                     /\ wiki_versions' = [wiki_versions EXCEPT ![d] =
                            InsertAll(@, BatchRows(d, tsMs, chunks, 1))]
                     /\ wikiTenantId' = [wikiTenantId EXCEPT ![d] = tenant]
                     /\ wikiId' = [wikiId EXCEPT ![d] = d]
                     /\ hist' = [hist EXCEPT ![d].done = @ + 1,
                                                 ![d].versions = @ \cup {tsMs},
                                                 ![d].owner = tenant]

\* create called on object d through its stub, outside createWiki: the object
\* may have been bound and wiped before.
Create(d, tenant, name, wikiType, fault) ==
    LET m == RunAll(wikiMigrated[d], wikiSchema[d], WikiLastMigration)
        ok == CreateReturnsOk(wikiType, fault) /\ m.stored >= WikiLastMigration
    IN  /\ wikiAlive[d]
        /\ fault \in {"none", "fetch", "write"}
        /\ fault # "none" => faults < MaxFaults
        /\ faults' = IF fault = "none" THEN faults ELSE faults + 1
        /\ WikiCreate(d, tenant, name, wikiType, fault)
        /\ resp' = [Resp("create", d, ok, IF ok THEN 200 ELSE 500, <<>>)
                      EXCEPT !.tenantId = tenant, !.wikiId = d, !.name = name,
                             !.body = IF ok THEN Bytes(seq + 1, TemplateLen) ELSE <<>>]
        /\ UNCHANGED <<wikiAlive, tenantStore, tenantMemory, tcall, nextDoc>>

\* -------------------------------------------------------- WikiDO.deleteAll
\* (variant: deleteAll that keeps the SchemaMigrations object it had)
MigrationsKept(mem) == mem

\* this._migrations = new SchemaMigrations(...): nothing is marked as applied.
ResetMigrations(mem) == 0

\* fault "deleteAll": storage.deleteAll() throws, after the fields were reset.
WikiDeleteAll(d, fault) ==
    /\ fileSrc' = [fileSrc EXCEPT ![d] = NoCache]
    /\ wikiId' = [wikiId EXCEPT ![d] = ""]
    /\ wikiTenantId' = [wikiTenantId EXCEPT ![d] = ""]
    /\ IF fault = "deleteAll"
       THEN /\ up' = Mix(d)
            /\ UNCHANGED <<wikiStore, wikiMigrated, hist>>
       ELSE /\ wikiSchema' = [wikiSchema EXCEPT ![d] = 0]
            /\ wiki_info' = [wiki_info EXCEPT ![d] = {}]
            /\ wiki_versions' = [wiki_versions EXCEPT ![d] = {}]
            /\ wikiMigrated' = [wikiMigrated EXCEPT ![d] = ResetMigrations(@)]
            /\ up' = [u \in DOMAIN up |->
                        IF up[u].pc # "idle" /\ up[u].doc = d
                        THEN [up[u] EXCEPT !.mixed = TRUE, !.done = -1] ELSE up[u]]
            /\ hist' = [hist EXCEPT ![d] = [NoHist EXCEPT !.owner = hist[d].owner]]

\* ------------------------------------------------------ WikiDO constructor
\* An eviction of object d: its memory and the calls in flight on it are
\* lost, and the next request runs the constructor again.
WikiRestart(d) ==
    /\ faults < MaxFaults
    /\ faults' = faults + 1
    /\ wikiAlive' = [wikiAlive EXCEPT ![d] = ~(TablesExist(d) /\ wiki_info[d] = {})]
    /\ wikiMigrated' = [wikiMigrated EXCEPT ![d] = 0]
    /\ fileSrc' = [fileSrc EXCEPT ![d] = NoCache]
    /\ IF TablesExist(d) /\ wiki_info[d] # {}
       THEN LET row == CHOOSE r \in wiki_info[d] : TRUE
            IN  /\ wikiId' = [wikiId EXCEPT ![d] = row.wikiId]
                /\ wikiTenantId' = [wikiTenantId EXCEPT ![d] = row.tenantId]
       ELSE /\ wikiId' = [wikiId EXCEPT ![d] = ""]
            /\ wikiTenantId' = [wikiTenantId EXCEPT ![d] = ""]
    /\ up' = [u \in DOMAIN up |->
                IF up[u].pc # "idle" /\ up[u].doc = d THEN IdleFrame ELSE up[u]]
    /\ hist' = IF \E u \in DOMAIN up : up[u].pc # "idle" /\ up[u].doc = d
               THEN LET fr == up[CHOOSE u \in DOMAIN up :
                                    up[u].pc # "idle" /\ up[u].doc = d]
                    IN  [hist EXCEPT ![d].cut =
                            [has |-> TRUE, tag |-> fr.tag, done |-> fr.done,
                             bound |-> fr.bound, stored |-> fr.stored],
                          ![d].failed = LeftBehind(@, wiki_versions[d], d,
                                                   fr.tsMs, hist[d].oks)]
               ELSE hist
    /\ resp' = Resp("evicted", d, FALSE, 0, <<>>)
    /\ UNCHANGED <<now, seq, wikiStore, tenantStore, tenantMemory, tcall,
                   nextDoc>>


\* ---------------------------------------------------------------- TenantDO
\* (variant: newUniqueId() returning the id it returned before)
SameIdAgain == <<"d1", "d1">>

DocIds == <<"d1", "d2">>      \* the ids WIKI.newUniqueId() hands out, in order

\* (variant: _initTables without the tenant check)
AnyTenantPasses(a, tenant) == FALSE

\* _initTables(tenant) throws for a tenant other than the one that claimed a.
WrongTenant(a, tenant) == tenantId[a] # "" /\ tenantId[a] # tenant

\* _initTables(tenant) on object a: runAll(), then the claim.
InitTables(a, tenant) ==
    LET m == RunAll(tenantMigrated[a], tenantSchema[a], TenantLastMigration)
    IN  /\ tenantMigrated' = [tenantMigrated EXCEPT ![a] = m.mem]
        /\ tenantSchema' = [tenantSchema EXCEPT ![a] = m.stored]
        /\ tenantApplied' = [tenantApplied EXCEPT ![a] = @ \o m.applied]
        /\ IF tenantId[a] # ""
           THEN UNCHANGED <<tenant_info, tenantId>>
           ELSE /\ tenant_info' = [tenant_info EXCEPT ![a] = @ \cup {tenant}]
                /\ tenantId' = [tenantId EXCEPT ![a] = tenant]

\* A createWiki or deleteWiki on object a whose runAll() throws in migration
\* failAt: _initTables throws before the claim, and so does the call.
InitTablesThrows(a, failAt) ==
    LET m == RunAllThrows(tenantMigrated[a], tenantSchema[a], TenantLastMigration,
                          failAt)
    IN  /\ tcall[a].pc = "idle"
        /\ ~m.ok
        /\ faults' = faults + 1
        /\ tenantMigrated' = [tenantMigrated EXCEPT ![a] = m.mem]
        /\ tenantSchema' = [tenantSchema EXCEPT ![a] = m.stored]
        /\ tenantApplied' = [tenantApplied EXCEPT ![a] = @ \o m.applied]
        /\ resp' = [Resp("_initTables", a, FALSE, 500, <<>>)
                      EXCEPT !.fault = "migration"]
        /\ UNCHANGED <<now, seq, wikiStore, wikiMemory, up, tenant_info, wikis,
                       tenantId, tcall, nextDoc, hist>>

\* list(): the index rows of object a as the caller sees them.
ListOf(claimed, rows) ==
    IF claimed = "" THEN {}
    ELSE {[tenantId |-> r.tenantId, wikiId |-> r.wikiId, name |-> r.name,
           wikiUrl |-> <<"w", r.wikiId, r.name>>, wikiType |-> r.wikiType,
           createdAtMs |-> r.createdAtMs] : r \in rows}

List(a) == ListOf(tenantId[a], wikis[a])

TenantResp(op, a, ok, c) ==
    [Resp(op, a, ok, IF ok THEN 200 ELSE 500, <<>>)
       EXCEPT !.tenantId = c.tenantId, !.wikiId = c.wikiId, !.name = c.name]

\* createWiki up to the reply of `await this.env.WIKI.get(doId).create(...)`.
CreateWikiCallOn(c, a, tenant, name, wikiType, fault) ==
    /\ tcall[c].pc = "idle"
    /\ fault \in {"none", "fetch", "write"}
    /\ InitTables(a, tenant)
    /\ IF WrongTenant(a, tenant)
       THEN /\ fault = "none"
            /\ resp' = TenantResp("createWiki", a, FALSE,
                                  [tenantId |-> tenant, wikiId |-> "", name |-> name])
            /\ UNCHANGED <<now, seq, wikiStore, wikiMigrated, fileSrc, wikiId,
                           wikiTenantId, up, hist, tcall, nextDoc, faults>>
       ELSE /\ nextDoc < Len(DocIds)
            /\ nextDoc' = nextDoc + 1
            /\ fault # "none" => (faults < MaxFaults /\ wikiType = "tw5")
            /\ faults' = IF fault = "none" THEN faults ELSE faults + 1
            /\ WikiCreate(DocIds[nextDoc + 1], tenant, name, wikiType, fault)
            /\ tcall' = [tcall EXCEPT ![c] =
                  [pc |-> "created", op |-> "createWiki", tenantId |-> tenant,
                   wikiId |-> DocIds[nextDoc + 1], name |-> name, wikiType |-> wikiType,
                   ok |-> CreateReturnsOk(wikiType, fault),
                   createdAtMs |-> IF CreateReturnsOk(wikiType, fault) THEN now + 1 ELSE 0,
                   foreign |-> FALSE]]
            /\ UNCHANGED resp
    /\ UNCHANGED <<wikiAlive, wikis>>

\* createWiki on object a when no other call is in flight on it.
CreateWikiCall(a, tenant, name, wikiType, fault) ==
    CreateWikiCallOn(a, a, tenant, name, wikiType, fault)

\* (variant: the index row written whatever create answered)
IndexRowAlways(rows, c) ==
    {r \in rows : r.wikiId # c.wikiId} \cup
    {[wikiId |-> c.wikiId, tenantId |-> c.tenantId, name |-> c.name,
      wikiType |-> c.wikiType, createdAtMs |-> c.createdAtMs]}

\* (variant: the index written back from what the call read when it began,
\* an empty index, plus its own row)
IndexRowOverwrites(rows, c) ==
    IF c.ok
    THEN {[wikiId |-> c.wikiId, tenantId |-> c.tenantId, name |-> c.name,
           wikiType |-> c.wikiType, createdAtMs |-> c.createdAtMs]}
    ELSE rows

\* The index row createWiki writes once create has been awaited.
IndexAfterCreate(rows, c) ==
    IF c.ok
    THEN {r \in rows : r.wikiId # c.wikiId} \cup
         {[wikiId |-> c.wikiId, tenantId |-> c.tenantId, name |-> c.name,
           wikiType |-> c.wikiType, createdAtMs |-> c.createdAtMs]}
    ELSE rows

\* createWiki from the reply of create to its own return.
CreateWikiReturnOn(c, a) ==
    /\ tcall[c].pc = "created"
    /\ wikis' = [wikis EXCEPT ![a] = IndexAfterCreate(@, tcall[c])]
    /\ resp' = TenantResp("createWiki", a, tcall[c].ok, tcall[c])
    /\ tcall' = [tcall EXCEPT ![c] = IdleCall]
    /\ UNCHANGED <<now, seq, wikiStore, wikiMemory, up, tenantSchema, tenant_info,
                   tenantApplied, tenantMemory, nextDoc, faults, hist>>

CreateWikiReturn(a) == CreateWikiReturnOn(a, a)

\* deleteWiki up to the reply of `await this.env.WIKI.get(doId).deleteAll()`.
DeleteWikiCall(a, tenant, d, fault) ==
    /\ tcall[a].pc = "idle"
    /\ fault \in {"none", "deleteAll"}
    /\ InitTables(a, tenant)
    /\ IF WrongTenant(a, tenant)
       THEN /\ fault = "none"
            /\ resp' = TenantResp("deleteWiki", a, FALSE,
                                  [tenantId |-> tenant, wikiId |-> d, name |-> ""])
            /\ UNCHANGED <<wikiStore, wikiMigrated, fileSrc, wikiId, wikiTenantId,
                           up, hist, tcall, faults>>
       ELSE /\ fault # "none" => (faults < MaxFaults /\ wikiAlive[d])
            /\ faults' = IF fault = "none" THEN faults ELSE faults + 1
            /\ IF wikiAlive[d]
               THEN WikiDeleteAll(d, fault)
               ELSE \* the constructor of d throws: the call fails
                    UNCHANGED <<wikiStore, wikiMigrated, fileSrc, wikiId,
                                wikiTenantId, up, hist>>
            /\ tcall' = [tcall EXCEPT ![a] =
                  [pc |-> "deleted", op |-> "deleteWiki", tenantId |-> tenant,
                   wikiId |-> d, name |-> "", wikiType |-> "",
                   ok |-> wikiAlive[d] /\ fault = "none", createdAtMs |-> 0,
                   foreign |-> wikiTenantId[d] \notin {"", tenant}]]
            /\ UNCHANGED resp
    /\ UNCHANGED <<now, seq, wikiAlive, wikis, nextDoc>>

\* (variant: the DELETE executed whatever deleteAll answered)
IndexRowDropped(rows, c) ==
    {r \in rows : ~(r.wikiId = c.wikiId /\ r.tenantId = c.tenantId)}

\* (variant: deleteWiki without its DELETE)
IndexRowKept(rows, c) == rows

\* DELETE FROM wikis WHERE wikiId = ? AND tenantId = ?
IndexAfterDelete(rows, c) ==
    IF c.ok THEN {r \in rows : ~(r.wikiId = c.wikiId /\ r.tenantId = c.tenantId)}
    ELSE rows

\* deleteWiki from the reply of deleteAll to its own return of list().
DeleteWikiReturn(a) ==
    /\ tcall[a].pc = "deleted"
    /\ wikis' = [wikis EXCEPT ![a] = IndexAfterDelete(@, tcall[a])]
    /\ tcall' = [tcall EXCEPT ![a] = IdleCall]
    /\ resp' = [TenantResp("deleteWiki", a, tcall[a].ok, tcall[a])
                  EXCEPT !.list = IF tcall[a].ok
                                  THEN ListOf(tenantId[a],
                                              IndexAfterDelete(wikis[a], tcall[a]))
                                  ELSE {}]
    /\ UNCHANGED <<now, seq, wikiStore, wikiMemory, up, tenantSchema, tenant_info,
                   tenantApplied, tenantMemory, nextDoc, faults, hist>>

\* routeListWikis: list() on object a.
ListWikis(a) ==
    /\ resp' = [Resp("list", a, TRUE, 200, <<>>) EXCEPT !.list = List(a)]
    /\ UNCHANGED <<now, seq, wikiStore, wikiMemory, up, tenantStore, tenantMemory,
                   tcall, nextDoc, faults, hist>>

\* An eviction of TenantDO a: the constructor reloads the claim.
TenantRestart(a) ==
    /\ faults < MaxFaults
    /\ faults' = faults + 1
    /\ tenantMigrated' = [tenantMigrated EXCEPT ![a] = 0]
    /\ tenantId' = [tenantId EXCEPT ![a] =
          IF tenantSchema[a] >= 1 /\ tenant_info[a] # {}
          THEN CHOOSE t \in tenant_info[a] : TRUE ELSE ""]
    /\ tcall' = [tcall EXCEPT ![a] = IdleCall]
    /\ resp' = Resp("evicted", a, FALSE, 0, <<>>)
    /\ UNCHANGED <<now, seq, wikiStore, wikiMemory, up, tenantStore, nextDoc,
                   hist>>

\* ------------------------------------------------------------ specification
InitOf(calls) ==
    /\ now = 0
    /\ seq = 0
    /\ wikiSchema = [d \in Docs |-> 0]
    /\ wiki_info = [d \in Docs |-> {}]
    /\ wiki_versions = [d \in Docs |-> {}]
    /\ wikiAlive = [d \in Docs |-> TRUE]
    /\ wikiMigrated = [d \in Docs |-> 0]
    /\ fileSrc = [d \in Docs |-> NoCache]
    /\ wikiId = [d \in Docs |-> ""]
    /\ wikiTenantId = [d \in Docs |-> ""]
    /\ up = [u \in calls |-> IdleFrame]
    /\ tenantSchema = [a \in Tenants |-> 0]
    /\ tenant_info = [a \in Tenants |-> {}]
    /\ wikis = [a \in Tenants |-> {}]
    /\ tenantApplied = [a \in Tenants |-> <<>>]
    /\ tenantMigrated = [a \in Tenants |-> 0]
    /\ tenantId = [a \in Tenants |-> ""]
    /\ tcall = [c \in TenantCalls |-> IdleCall]
    /\ nextDoc = 0
    /\ faults = 0
    /\ resp = Resp("none", "", FALSE, 0, <<>>)
    /\ hist = [d \in Docs |-> NoHist]

Init == InitOf(UpsertCalls)

\* A request can name a document only once its id exists: newUniqueId() has
\* handed it out.
Allocated(d) == \E i \in 1..nextDoc : DocIds[i] = d

\* Hints that may come with a byte source of length n: none, or its length.
Hints(n) == {NoHint, n}

BufferedSteps(docs) ==
    \E u \in DOMAIN up, f \in {"none", "write", "retain"} :
        up[u].doc \in docs /\ UpsertBuffered(u, f)

StreamSteps(docs) ==
    \/ \E u \in DOMAIN up, f \in {"none", "chunk", "last", "retain"} :
          up[u].doc \in docs /\ UpsertRead(u, f)
    \/ \E u \in DOMAIN up : up[u].doc \in docs /\ UpsertAbort(u)

\* Calls reach a TenantDO through idFromName(tenantId), so the call that
\* claims object a names a; later calls may present any tenant id.
Routed(a, t) == tenantId[a] = "" => t = a

TenantSteps ==
    \/ /\ now < MaxNow
       /\ \E a \in Tenants, t \in Tenants, n \in Names, w \in WikiTypes,
             f \in {"none", "fetch", "write"} :
                Routed(a, t) /\ CreateWikiCall(a, t, n, w, f)
    \/ \E a \in Tenants : CreateWikiReturn(a)
    \/ \E a \in Tenants, t \in Tenants, d \in Docs, f \in {"none", "deleteAll"} :
          Routed(a, t) /\ Allocated(d) /\ DeleteWikiCall(a, t, d, f)
    \/ \E a \in Tenants : DeleteWikiReturn(a)
    \/ \E a \in Tenants : ListWikis(a)
    \/ \E a \in Tenants : TenantRestart(a)

\* ---- the whole system
InputLens == {0, 1, CHUNK_SIZE_MAX, BYTE_SIZE_ATONCE_THRESHOLD - 100000,
              3 * BYTE_SIZE_ATONCE_THRESHOLD}

Next ==
    \/ /\ now < MaxNow
       /\ \E u \in DOMAIN up, d \in Docs, n \in InputLens :
             \E h \in Hints(n) : Allocated(d) /\ UpsertBegin(u, d, n, h)
    \/ BufferedSteps(Docs)
    \/ StreamSteps(Docs)
    \/ \E d \in Docs, id \in Docs : GetFileSrc(d, id)
    \/ \E d \in Docs : WikiRestart(d)
    \/ TenantSteps

Spec == Init /\ [][Next]_vars

\* ---- tenants and the life cycle of their documents: two tenants, two
\* documents whose content is the version create wrote
NextTenants ==
    \/ \E d \in Docs, id \in Docs : GetFileSrc(d, id)
    \/ \E d \in Docs : WikiRestart(d)
    \/ TenantSteps

SpecTenants == Init /\ [][NextTenants]_vars

\* ---- one document of one tenant, byte sources of every kind of length
WikiLens == {0, 1, CHUNK_SIZE_MAX, CHUNK_SIZE_MAX + 1, BYTE_SIZE_ATONCE_THRESHOLD}

WikiSteps(lens, hinted, limit) ==
    \/ /\ now < limit
       /\ \E u \in DOMAIN up, n \in lens :
             \E h \in (IF hinted THEN Hints(n) ELSE {NoHint}) :
                Allocated("d1") /\ UpsertBegin(u, "d1", n, h)
    \/ StreamSteps({"d1"})
    \/ \E id \in Docs : GetFileSrc("d1", id)
    \/ WikiRestart("d1")
    \/ /\ now < limit
       /\ nextDoc = 0
       /\ \E f \in {"none", "fetch", "write"} :
             CreateWikiCall("T1", "T1", "Notes", "tw5", f)
    \/ CreateWikiReturn("T1")

NextWiki ==
    \/ WikiSteps(WikiLens, TRUE, MaxNow)
    \/ BufferedSteps({"d1"})
    \/ \E f \in {"none", "deleteAll"} : DeleteWikiCall("T1", "T1", "d1", f)
    \/ DeleteWikiReturn("T1")

SpecWiki == Init /\ [][NextWiki]_vars

\* ---- one document saved often enough for retention to delete
MaxSaves == 12       \* Date.now() is read at most this many times here
RetentionLens == {1}

NextRetention == WikiSteps(RetentionLens, FALSE, MaxSaves)

SpecRetention == Init /\ [][NextRetention]_vars

\* ---- one document read back: bodies that end up in three rows or fewer and
\* in four rows or more, below and at the threshold
DeliveryLens == {CHUNK_SIZE_MAX, 2 * CHUNK_SIZE_MAX + 1, BYTE_SIZE_ATONCE_THRESHOLD}

NextDelivery ==
    \/ WikiSteps(DeliveryLens, TRUE, MaxNow)
    \/ BufferedSteps({"d1"})
    \/ ConsumerRead
    \/ Cancel

SpecDelivery == Init /\ [][NextDelivery]_vars

\* ---- one document created, wiped and created again on the same object
MaxLife == 3         \* Date.now() is read at most this many times here

NextLifecycle ==
    \/ WikiSteps(RetentionLens, FALSE, MaxLife)
    \/ \E f \in {"none", "deleteAll"} : DeleteWikiCall("T1", "T1", "d1", f)
    \/ DeleteWikiReturn("T1")
    \/ /\ now < MaxLife
       /\ Allocated("d1")
       /\ \E f \in {"none", "fetch", "write"} : Create("d1", "T1", "Notes", "tw5", f)

SpecLifecycle == Init /\ [][NextLifecycle]_vars

\* ---- one document, two upsert calls that may overlap, and a clock that may
\* return the millisecond it returned before
OverlapCalls == {"u1", "u2"}
OverlapLens == {1, CHUNK_SIZE_MAX + 1}
MaxSources == 3      \* byte sources handed out here: the template and two bodies

\* Date.now() at the start of an upsert: a later millisecond, or the one an
\* upsert that is still in flight has read.
DateNow ==
    {now + 1} \cup {up[v].tsMs : v \in {w \in DOMAIN up : up[w].pc # "idle"
                                                          /\ up[w].tsMs = now}}

NextOverlap ==
    \/ /\ nextDoc = 0
       /\ CreateWikiCall("T1", "T1", "Notes", "tw5", "none")
    \/ CreateWikiReturn("T1")
    \/ /\ seq < MaxSources
       /\ \E u \in DOMAIN up, n \in OverlapLens, t \in DateNow :
             Allocated("d1") /\ UpsertBeginAt(u, "d1", n, NoHint, t)
    \/ StreamSteps({"d1"})
    \/ GetFileSrc("d1", "d1")

SpecOverlap == InitOf(OverlapCalls) /\ [][NextOverlap]_vars

\* ---- one document whose every upsert comes with the length of its body as
\* content-length
HintedLens == {0, 1, CHUNK_SIZE_MAX + 1, BYTE_SIZE_ATONCE_THRESHOLD - 1,
               BYTE_SIZE_ATONCE_THRESHOLD}

NextHinted ==
    \/ /\ nextDoc = 0
       /\ CreateWikiCall("T1", "T1", "Notes", "tw5", "none")
    \/ CreateWikiReturn("T1")
    \/ /\ now < MaxLife
       /\ \E u \in DOMAIN up, n \in HintedLens :
             Allocated("d1") /\ UpsertBegin(u, "d1", n, n)
    \/ BufferedSteps({"d1"})
    \/ StreamSteps({"d1"})
    \/ GetFileSrc("d1", "d1")

SpecHinted == Init /\ [][NextHinted]_vars

\* ---- one document saved through the streaming path from finite byte
\* sources, with no fault; a read of a finite source resolves, so the loop of
\* a suspended upsert is resumed
StreamLens == {0, 1, CHUNK_SIZE_MAX, CHUNK_SIZE_MAX + 1, 2 * CHUNK_SIZE_MAX + 1}

ReadResolves == \E u \in DOMAIN up : UpsertRead(u, "none")

NextStreaming ==
    \/ /\ nextDoc = 0
       /\ CreateWikiCall("T1", "T1", "Notes", "tw5", "none")
    \/ CreateWikiReturn("T1")
    \/ /\ now < MaxNow
       /\ \E u \in DOMAIN up, n \in StreamLens :
             Allocated("d1") /\ UpsertBegin(u, "d1", n, NoHint)
    \/ ReadResolves
    \/ GetFileSrc("d1", "d1")

SpecStreaming == Init /\ [][NextStreaming]_vars /\ WF_vars(ReadResolves)

\* ---- one tenant object with two createWiki calls that may both be
\* suspended on the create of their document
CreateCalls == {"T1", "c2"}

NextCreates ==
    \/ \E c \in CreateCalls, w \in WikiTypes, f \in {"none", "fetch", "write"} :
          CreateWikiCallOn(c, "T1", "T1", "Notes", w, f)
    \/ \E c \in CreateCalls : CreateWikiReturnOn(c, "T1")
    \/ ListWikis("T1")
    \/ \E d \in Docs : GetFileSrc(d, d)

SpecCreates == Init /\ [][NextCreates]_vars

\* ---- chunkify and mergeArrayBuffers applied to buffers of one or two runs
\* of bytes, with small chunk sizes and with CHUNK_SIZE_MAX
FirstRunLens == {0, 1, 2, 3, 5, CHUNK_SIZE_MAX, TemplateLen}
SecondRunLens == {0, 1, 4, CHUNK_SIZE_MAX + 1}
ChunkSizes == {1, 2, 3, 4, CHUNK_SIZE_MAX}
MaxChunks == 8       \* buffers are cut into at most this many chunks here

\* chunks = chunkify(bb, chunkSz), for a buffer of n1 bytes followed by n2
\* bytes of another source
ChunkifyApplied(n1, n2, chunkSz) ==
    LET bb == Concat(Bytes(1, n1), Bytes(2, n2))
    IN  /\ resp' = [Resp("chunkify", "", TRUE, 0, bb)
                      EXCEPT !.parts = chunkify(bb, chunkSz), !.taken = chunkSz]
        /\ UNCHANGED <<now, seq, wikiStore, wikiMemory, up, tenantStore,
                       tenantMemory, tcall, nextDoc, faults, hist>>

\* mergeArrayBuffers(chunks) on the chunks chunkify returned
MergeApplied ==
    /\ resp.op = "chunkify"
    /\ resp' = [resp EXCEPT !.op = "mergeArrayBuffers",
                            !.served = [status |-> 0,
                                        body |-> mergeArrayBuffers(resp.parts)]]
    /\ UNCHANGED <<now, seq, wikiStore, wikiMemory, up, tenantStore,
                   tenantMemory, tcall, nextDoc, faults, hist>>

NextChunks ==
    \/ \E n1 \in FirstRunLens, n2 \in SecondRunLens, chunkSz \in ChunkSizes :
          /\ n1 + n2 <= MaxChunks * chunkSz
          /\ ChunkifyApplied(n1, n2, chunkSz)
    \/ MergeApplied

SpecChunks == Init /\ [][NextChunks]_vars

\* ---- one tenant object whose migrations may throw, and its retries
MaxThrows == 2       \* runAll() throws at most this many times here

NextMigrations ==
    \/ /\ faults < MaxThrows
       /\ \E f \in 1..TenantLastMigration : InitTablesThrows("T1", f)
    \/ /\ now < MaxNow
       /\ \E t \in Tenants : Routed("T1", t)
                             /\ CreateWikiCall("T1", t, "Notes", "tw5", "none")
    \/ CreateWikiReturn("T1")
    \/ \E d \in Docs : Allocated(d) /\ DeleteWikiCall("T1", "T1", d, "none")
    \/ DeleteWikiReturn("T1")
    \/ ListWikis("T1")
    \/ \E d \in Docs : GetFileSrc(d, d)

SpecMigrations == Init /\ [][NextMigrations]_vars

\* ================================================================ properties

\* C1 -- An upsert on a bound document that is cut short before its terminal
\* row is written (body failure, storage fault, eviction) stays invisible:
\* as long as no later version has been completed, every getFileSrc answers
\* exactly what the store held as the latest complete version when that
\* upsert began, and no byte of the interrupted body is in the answer.
C1_InterruptedUpsertInvisible ==
    \A d \in Docs :
        (Bound(d) /\ hist[d].cut.has /\ hist[d].cut.bound
                  /\ hist[d].cut.done = hist[d].done)
        => \A o \in GetFileSrcOutcomes(d, d) :
              /\ Answer(o) = hist[d].cut.stored
              /\ \A i \in 1..Len(o.body) : o.body[i].tag # hist[d].cut.tag

\* C1 witness: rows of the interrupted version are in the store and a
\* getFileSrc has answered after the interruption.
C1_Witness ==
    \E d \in Docs :
        /\ Bound(d) /\ hist[d].cut.has /\ hist[d].cut.bound
        /\ hist[d].cut.done = hist[d].done
        /\ \E r \in wiki_versions[d] :
              r.src # <<>> /\ r.src[1].tag = hist[d].cut.tag
        /\ resp.op = "getFileSrc" /\ resp.who = d /\ resp.status = 200

\* C2 -- Round trip: when upsert(B) on a bound document has returned ok and no
\* other call ran on the object meanwhile, getFileSrc answers 200 with exactly
\* the bytes of B, from the cache and from the store alike, whatever the
\* length of B and whichever ingest path was taken.
C2_RoundTrip ==
    (resp.op = "upsert" /\ resp.ok /\ ~resp.mixed /\ Bound(resp.who))
    => /\ \A o \in GetFileSrcOutcomes(resp.who, resp.who) :
             o.status = 200 /\ o.body = resp.body
       /\ StoredAnswers(resp.who) = {[status |-> 200, body |-> resp.body]}

\* C2 witness: a body of several chunks went through the streaming path.
C2_Witness ==
    /\ resp.op = "upsert" /\ resp.ok /\ ~resp.mixed /\ Bound(resp.who)
    /\ byteLength(resp.body) > 3 * CHUNK_SIZE_MAX
    /\ ~fileSrc[resp.who].has

\* C3 -- Read-your-writes (does not hold): once upsert(B) on a bound document
\* has returned ok, getFileSrc answers B, also when other calls were
\* processed on the object while the upsert was suspended.
C3_ReadYourWrites ==
    (resp.op = "upsert" /\ resp.ok /\ Bound(resp.who))
    => \A o \in GetFileSrcOutcomes(resp.who, resp.who) :
          o.status = 200 /\ o.body = resp.body

\* C4 -- Retention: when an upsert returns ok on a document with k completed
\* versions since its creation or last wipe (create's included), the store
\* holds exactly min(k, RETAINED_VERSIONS_NUM) complete versions, they are
\* the latest ones, and once it holds RETAINED_VERSIONS_NUM no row is older
\* than the oldest of them.
C4_Retention ==
    (resp.op = "upsert" /\ resp.ok)
    => LET d == resp.who
           complete == {r.tsMs : r \in CompleteRows(wiki_versions[d], d)}
           k == Cardinality(hist[d].versions)
       IN  /\ Cardinality(complete) = Min(k, RETAINED_VERSIONS_NUM)
           /\ complete = TopTs(hist[d].versions, RETAINED_VERSIONS_NUM)
           /\ k >= RETAINED_VERSIONS_NUM
                => \A r \in wiki_versions[d] : \E t \in complete : r.tsMs >= t

\* C4 witness: more versions were completed than are retained.
C4_Witness ==
    /\ resp.op = "upsert" /\ resp.ok
    /\ Cardinality(hist[resp.who].versions) > RETAINED_VERSIONS_NUM + 1
    /\ Cardinality({r.tsMs : r \in CompleteRows(wiki_versions[resp.who], resp.who)})
         = RETAINED_VERSIONS_NUM

\* C5 -- Tenant isolation (does not hold): a deleteWiki invoked under tenant
\* a on a document bound to another tenant leaves that document bound to its
\* owner with its content in place.
C5_TenantIsolation ==
    \A a \in Tenants :
        (/\ tcall[a].pc = "deleted" /\ tcall[a].tenantId = a /\ tcall[a].foreign
         /\ \A b \in Tenants \ {a} : tcall[b].pc # "deleted")
        => /\ Bound(tcall[a].wikiId)
           /\ wikiTenantId[tcall[a].wikiId] \notin {"", a}
           /\ wiki_versions[tcall[a].wikiId] # {}

\* C6 -- On a running document object whose identity is unset (never created,
\* or wiped) or differs from the identifier asked for, getFileSrc answers
\* status 400 with no content, whatever the cache and the store hold.
C6_IdentityGuard ==
    \A d \in Docs, id \in Docs :
        (wikiAlive[d] /\ (wikiId[d] = "" \/ wikiId[d] # id))
        => \A o \in GetFileSrcOutcomes(d, id) : o.status = 400 /\ o.body = <<>>

\* C6 witness: getFileSrc answered 400 on an object that holds bytes in its
\* cache but has no identity.
C6_Witness ==
    \E d \in Docs :
        /\ wikiAlive[d] /\ wikiId[d] = "" /\ fileSrc[d].has
        /\ resp.op = "getFileSrc" /\ resp.who = d /\ resp.status = 400

\* C7 -- Every row of a tenant's index, and so every entry list() shows, names
\* a document whose create returned ok for the tenant of the row.
C7_IndexOnlyCreated ==
    \A a \in Tenants :
        /\ \A r \in wikis[a] : hist[r.wikiId].owner = r.tenantId
        /\ \A e \in List(a) : hist[e.wikiId].owner = e.tenantId

\* C7 witness: createWiki failed after the id was handed out, and no index
\* holds a row for the id.
C7_Witness ==
    /\ resp.op = "createWiki" /\ ~resp.ok /\ resp.wikiId # ""
    /\ hist[resp.wikiId].owner = ""
    /\ \A a \in Tenants : \A r \in wikis[a] : r.wikiId # resp.wikiId

\* C8 -- The claimed tenant id of a tenant object, once set, never changes
\* (evictions included), and a call for another tenant, answered in the step,
\* fails without creating a document, writing an index row or deleting
\* anything.
C8_ClaimIsStable ==
    [][\A a \in Tenants :
          tenantId[a] # ""
          => /\ tenantId'[a] = tenantId[a]
             /\ tenant_info'[a] = tenant_info[a]
             /\ (/\ resp' # resp
                 /\ resp'.op \in {"createWiki", "deleteWiki"}
                 /\ resp'.who = a
                 /\ resp'.tenantId # tenantId[a])
                  => /\ ~resp'.ok
                     /\ UNCHANGED <<wikiStore, wikiId, wikiTenantId, fileSrc,
                                    wikis, nextDoc, tcall>>]_vars

\* C8 witness: a call for another tenant has been answered by a claimed object.
C8_Witness ==
    /\ resp.op \in {"createWiki", "deleteWiki"} /\ ~resp.ok
    /\ tenantId[resp.who] # "" /\ resp.tenantId # tenantId[resp.who]

\* C9 -- After createWiki returned ok, list() holds exactly one entry for the
\* new id, with the given name; after deleteWiki returned ok, list() and the
\* returned list hold no entry for the id and getFileSrc for it answers 400.
C9_IndexFollowsCalls ==
    /\ (resp.op = "createWiki" /\ resp.ok)
       => /\ Cardinality({e \in List(resp.who) : e.wikiId = resp.wikiId}) = 1
          /\ \A e \in List(resp.who) : e.wikiId = resp.wikiId => e.name = resp.name
    /\ (resp.op = "deleteWiki" /\ resp.ok)
       => /\ \A e \in List(resp.who) \cup resp.list : e.wikiId # resp.wikiId
          /\ wikiAlive[resp.wikiId]
          /\ \A o \in GetFileSrcOutcomes(resp.wikiId, resp.wikiId) :
                o.status = 400 /\ o.body = <<>>

\* C9 witness: a tenant has deleted a document it had created.
C9_Witness ==
    /\ resp.op = "deleteWiki" /\ resp.ok
    /\ hist[resp.wikiId].owner = resp.tenantId

\* C10 -- A failed save changes nothing (does not hold): when an upsert on a
\* bound document has failed, getFileSrc answers what it answered before
\* that upsert began.
C10_FailedSaveChangesNothing ==
    (resp.op = "upsert" /\ ~resp.ok /\ Bound(resp.who))
    => \A o \in GetFileSrcOutcomes(resp.who, resp.who) : Answer(o) = resp.served

\* C11 -- (as amended) When a storage call throws during an upsert, the upsert
\* reports failure, the step removes no row from the store, and the rows the
\* attempt wrote outside the throwing transaction stay: on the streaming path
\* every chunk row written before the fault, the one of this turn of the loop
\* included; on either path the whole version when the retention step
\* throws. A throw inside the buffered path's insert transaction leaves no
\* row of the attempt.
C11_FaultLeavesCommittedRows ==
    [][\A u \in DOMAIN up :
          (/\ up[u].pc \in {"bytes", "read"} /\ up'[u].pc = "idle"
           /\ resp' # resp /\ resp'.op = "upsert"
           /\ resp'.fault \in {"notable", "write", "chunk", "last", "retain"})
          => LET d == up[u].doc
                 mine(rows) == {r \in rows : r.wikiId = d /\ r.tsMs = up[u].tsMs}
             IN  /\ ~resp'.ok
                 /\ wiki_versions[d] \subseteq wiki_versions'[d]
                 /\ (up[u].pc = "read" /\ resp'.fault \in {"last", "retain"})
                      => \E r \in mine(wiki_versions'[d]) :
                             r.chunkIdx = up[u].chunkIdx + 1
                 /\ (up[u].pc = "bytes" /\ resp'.fault = "retain")
                      => Cardinality(mine(wiki_versions'[d]))
                            = Len(chunkify(up[u].whole, CHUNK_SIZE_MAX))
                 /\ resp'.fault = "write" => mine(wiki_versions'[d]) = {}]_vars

\* C11 witness: a streaming upsert has just failed at a storage call and rows
\* of that attempt are in the store.
C11_Witness ==
    /\ resp.op = "upsert" /\ ~resp.ok /\ resp.fault \in {"chunk", "last"}
    /\ hist[resp.who].cut.has
    /\ \E r \in wiki_versions[resp.who] :
          r.src # <<>> /\ r.src[1].tag = hist[resp.who].cut.tag
                      /\ r.chunksTotal = NULL

\* C11 (as stated; does not hold) -- When a storage call throws during an
\* upsert, the upsert reports failure and no row the attempt had written is
\* rolled back.
C11_NothingRolledBack ==
    [][\A u \in DOMAIN up :
          (/\ up[u].pc \in {"bytes", "read"} /\ up'[u].pc = "idle"
           /\ resp' # resp /\ resp'.op = "upsert"
           /\ resp'.fault \in {"notable", "write", "chunk", "last", "retain"})
          => ~resp'.ok /\ resp'.undone = 0]_vars

\* C12 -- Rows left behind by an ingest that failed or was interrupted are
\* reclaimed: once RETAINED_VERSIONS_NUM later upserts to the document have
\* returned ok, no row with the timestamp of that ingest is in the store.
C12_LeftoversReclaimed ==
    \A d \in Docs : \A f \in hist[d].failed :
        hist[d].oks - f.oks >= RETAINED_VERSIONS_NUM
        => \A r \in wiki_versions[d] : r.tsMs # f.tsMs

\* C12 witness: an ingest left rows and RETAINED_VERSIONS_NUM upserts have
\* returned ok since.
C12_Witness ==
    \E d \in Docs : \E f \in hist[d].failed :
        /\ hist[d].oks - f.oks >= RETAINED_VERSIONS_NUM
        /\ resp.op = "upsert" /\ resp.ok /\ resp.who = d

C14_ChunkSizeBound ==
    \A d \in Docs : \A r \in wiki_versions[d] : byteLength(r.src) <= CHUNK_SIZE_MAX

\* C14 witness: the streaming path has written a full row and a later,
\* shorter one of the same version, next to the rows create wrote.
C14_Witness ==
    \E d \in Docs : \E r, q \in wiki_versions[d] :
        /\ r.chunksTotal = NULL /\ byteLength(r.src) = CHUNK_SIZE_MAX
        /\ q.chunksTotal = NULL /\ q.tsMs = r.tsMs /\ q.chunkIdx > r.chunkIdx
        /\ byteLength(q.src) \in 1..(CHUNK_SIZE_MAX - 1)
        /\ \E c \in wiki_versions[d] : c.tsMs < r.tsMs /\ c.chunksTotal = 2

\* C15 -- (does not hold) A createWiki call with an unrecognized wikiType is
\* rejected without partial effect: from the call to its failing return no
\* index row, no document identity and no chunk row is written, and the
\* persisted state of the tenant object, its claim included, stays as it was.
C15_RejectedWithoutEffect ==
    [][\A a \in Tenants :
          /\ (tcall[a].pc = "idle" /\ tcall'[a].pc = "created"
                                   /\ tcall'[a].wikiType \notin {"tw5"})
             => /\ tenantSchema'[a] = tenantSchema[a]
                /\ tenant_info'[a] = tenant_info[a]
                /\ wikis'[a] = wikis[a]
                /\ UNCHANGED <<wiki_info, wiki_versions>>
          /\ (tcall[a].pc = "created" /\ tcall[a].wikiType \notin {"tw5"}
                                      /\ tcall'[a].pc = "idle" /\ resp' # resp)
             => /\ ~resp'.ok
                /\ UNCHANGED <<tenantStore, wiki_info, wiki_versions>>]_vars

\* The object d as deleteAll leaves it: no cache, no identity, no row, no
\* table, no migration marked as applied.
Wiped(d) ==
    /\ fileSrc[d] = NoCache
    /\ wikiId[d] = "" /\ wikiTenantId[d] = ""
    /\ wiki_info[d] = {} /\ wiki_versions[d] = {}
    /\ wikiSchema[d] = 0 /\ wikiMigrated[d] = 0

\* C16: a deleteAll that returns leaves the object without cache, identity,
\* rows and applied migrations, and a create that succeeds on an object in
\* that state leaves it Bound to the ids it was given, with exactly one
\* complete version; without a fault such a create does succeed.
C16_WipedThenCreated ==
    [][/\ (tcall["T1"].pc = "idle" /\ tcall'["T1"].pc = "deleted" /\ tcall'["T1"].ok)
          => Wiped("d1")'
       /\ (Wiped("d1") /\ resp' # resp /\ resp'.op = "create")
          => /\ resp'.ok <=> faults' = faults
             /\ resp'.ok => /\ Bound("d1")' /\ wikiTenantId'["d1"] = resp'.tenantId
                            /\ wiki_info'["d1"] =
                                  {[wikiId |-> "d1", tenantId |-> resp'.tenantId,
                                    name |-> resp'.name, wikiType |-> "tw5"]}
                            /\ Cardinality({r.tsMs : r \in
                                  CompleteRows(wiki_versions'["d1"], "d1")}) = 1
                            /\ fileSrc'["d1"] = Cached(resp'.body)]_vars

\* a create has succeeded on the object that a deleteWiki had wiped
C16_Witness ==
    /\ resp.op = "create" /\ resp.ok
    /\ hist["d1"].done = 1 /\ now >= 2
    /\ Bound("d1")
    /\ tcall["T1"].pc = "deleted" /\ tcall["T1"].ok

\* The storage and the identity of object d are gone.
Gone(d) ==
    wiki_info[d] = {} /\ wiki_versions[d] = {} /\ wikiSchema[d] = 0 /\ wikiId[d] = ""

\* C17: an index row disappears only in the step that ends a deleteWiki whose
\* deleteAll has returned, and the document is wiped by then; a deleteWiki
\* whose deleteAll threw, or that was cut short, leaves the index and the
\* list as they were; and every deleteWiki that returns, a repeated one
\* included, leaves the document wiped and absent from the index and from
\* the list it answers.
C17_DeleteThenUnlist ==
    [][\A a \in Tenants :
         /\ \A r \in wikis[a] \ wikis'[a] :
               /\ tcall[a].pc = "deleted" /\ tcall[a].ok
               /\ r.wikiId = tcall[a].wikiId
               /\ Gone(r.wikiId)
         /\ (tcall[a].pc = "deleted" /\ ~tcall[a].ok /\ tcall'[a].pc = "idle")
               => /\ wikis'[a] = wikis[a]
                  /\ ListOf(tenantId'[a], wikis'[a]) = ListOf(tenantId[a], wikis[a])
         /\ (tcall[a].pc = "idle" /\ tcall'[a].pc = "deleted")
               => /\ wikis' = wikis
                  /\ tcall'[a].ok => \E d \in Docs : d = tcall'[a].wikiId /\ Gone(d)'
         /\ (tcall[a].pc = "deleted" /\ resp' # resp /\ resp'.op = "deleteWiki"
                /\ resp'.who = a /\ resp'.ok)
               => /\ \E d \in Docs : d = resp'.wikiId /\ Gone(d)'
                  /\ \A r \in wikis'[a] : r.wikiId # resp'.wikiId
                  /\ \A e \in resp'.list : e.wikiId # resp'.wikiId
                  /\ resp'.list = ListOf(tenantId'[a], wikis'[a])]_vars

\* the deleteWiki of a listed document is repeated after one whose deleteAll
\* threw, and this time deleteAll has returned
C17_Witness ==
    \E a \in Tenants :
        /\ resp.op = "deleteWiki" /\ resp.who = a /\ ~resp.ok
        /\ tcall[a].pc = "deleted" /\ tcall[a].ok
        /\ tcall[a].wikiId = resp.wikiId /\ tcall[a].tenantId = resp.tenantId
        /\ \E r \in wikis[a] : r.wikiId = resp.wikiId
        /\ Gone(resp.wikiId)

TagsOf(b) == {b[i].tag : i \in DOMAIN b}

\* C19: what getFileSrc answers holds no byte of an ingest whose upsert is
\* still suspended on its body.
C19_SuspendedIngestUnseen ==
    (resp.op = "getFileSrc" /\ resp.status = 200)
        => \A u \in DOMAIN up :
              (up[u].pc # "idle" /\ up[u].doc = resp.who)
                  => up[u].tag \notin TagsOf(resp.body)

\* C20: when the consumer of a document served row by row has cancelled, the
\* stream has enqueued at most one buffer beyond those the consumer has read.
C20_NothingPastCancellation ==
    (resp.op = "getFileSrc" /\ resp.cancelled /\ Len(resp.parts) > 1)
        => Len(resp.parts) <= resp.taken + 1

\* The ids 1 .. n in ascending order.
Ascending(n) == [i \in 1..n |-> i]

\* C21: on an object whose store is fully migrated, runAll() would apply
\* nothing and leave the mark where it is, whatever the object remembers; and
\* no call has applied a migration a second time: the statements that took
\* effect are those of each migration once. A document's store is either
\* fully migrated or has no table.
C21_MigratedRunsNothing ==
    /\ \A a \in Tenants :
          /\ Len(tenantApplied[a]) = tenantSchema[a]
          /\ tenantSchema[a] = TenantLastMigration
                => \A mem \in {0, tenantMigrated[a]} :
                      LET m == RunAll(mem, tenantSchema[a], TenantLastMigration)
                      IN  m.applied = <<>> /\ m.stored = tenantSchema[a] /\ m.ok
    /\ \A d \in Docs :
          /\ wikiSchema[d] \in {0, WikiLastMigration}
          /\ wikiSchema[d] = WikiLastMigration
                => \A mem \in {0, wikiMigrated[d]} :
                      LET m == RunAll(mem, wikiSchema[d], WikiLastMigration)
                      IN  m.applied = <<>> /\ m.stored = wikiSchema[d] /\ m.ok

\* a tenant object that had created a document was evicted, and the next call
\* has run _initTables on its fully migrated store
C21_Witness ==
    \E a \in Tenants :
        /\ wikis[a] # {}
        /\ resp.op = "evicted" /\ resp.who = a
        /\ tcall[a].pc # "idle"
        /\ tenantMigrated[a] = TenantLastMigration
        /\ tenantApplied[a] = Ascending(TenantLastMigration)

\* C22: the statements that have taken effect on a tenant object's store are
\* those of the migrations 1 .. mark, each once and in ascending order; the
\* object remembers having run everything only when the mark is at the last
\* migration, so that a call after a failure resumes right above the mark;
\* a tenant is claimed only on a fully migrated store; and as long as the
\* object on which runAll() threw has not been called again, its mark is
\* below the last migration.
C22_AppliedOnceInOrder ==
    \A a \in Tenants :
        /\ tenantApplied[a] = Ascending(tenantSchema[a])
        /\ tenantMigrated[a] = TenantLastMigration
              => tenantSchema[a] = TenantLastMigration
        /\ (tenantId[a] # "" \/ tenant_info[a] # {} \/ wikis[a] # {})
              => tenantSchema[a] = TenantLastMigration
        /\ (resp.op = "_initTables" /\ resp.who = a /\ tcall[a].pc = "idle")
              => tenantSchema[a] < TenantLastMigration

\* runAll() has thrown twice on the object and a createWiki has returned
\* since: the retries resumed above the mark
C22_Witness ==
    /\ faults = MaxThrows
    /\ tenantApplied["T1"] = Ascending(TenantLastMigration)
    /\ resp.op = "createWiki" /\ resp.ok
    /\ wikis["T1"] # {}

\* The rows of version ts of document d.
VersionRows(rows, d, ts) == {r \in rows : r.wikiId = d /\ r.tsMs = ts}

\* C23: once version ts of a document has its terminal row, no step replaces,
\* alters or adds a row of that version: the rows it has after a step are
\* among those it had before.
C23_WriteOnceVersions ==
    [][\A d \in Docs :
         \A c \in CompleteRows(wiki_versions[d], d) :
            VersionRows(wiki_versions'[d], d, c.tsMs)
                \subseteq VersionRows(wiki_versions[d], d, c.tsMs)]_vars


\* C24: an upsert on an object that is not Bound when the call starts (never
\* created, or already deleted) writes no schema, chunk or identity rows to
\* that object's store and does not return ok.
C24_UnboundUpsertRefused ==
    [][\A u \in DOMAIN up :
          /\ (up[u].pc = "idle" /\ up'[u].pc # "idle" /\ ~up'[u].bound)
                => wikiSchema'[up'[u].doc] = wikiSchema[up'[u].doc]
          /\ (up[u].pc # "idle" /\ ~up[u].bound /\ up'[u] # up[u])
                => /\ wiki_versions'[up[u].doc] = wiki_versions[up[u].doc]
                   /\ wiki_info'[up[u].doc] = wiki_info[up[u].doc]
                   /\ up'[u].pc = "idle" => ~resp'.ok]_vars


\* C25: whenever a Bound document's cache is populated and no upsert is in
\* progress on it, the cached bytes are the bytes getFileSrc would answer
\* from the store with the cache dropped.
C25_CacheTransparent ==
    \A d \in Docs :
        (Bound(d) /\ fileSrc[d].has
                  /\ \A u \in DOMAIN up : ~(up[u].pc # "idle" /\ up[u].doc = d))
        => \A a \in StoredAnswers(d) :
              a.status = 200 /\ a.body = fileSrc[d].bytes


\* C26: create and the buffered path of upsert write their rows all or
\* nothing. A create that got as far as its transaction either adds the
\* identity row together with every row of its version, or changes neither
\* table; a buffered upsert ends with every row of its version or with none,
\* and with none when a statement of its transaction threw.
C26_BatchAllOrNothing ==
    [][\A d \in Docs :
          LET ofTs(rows, ts) == {r \in rows : r.wikiId = d /\ r.tsMs = ts}
              template == chunkify(Bytes(seq', TemplateLen), CHUNK_SIZE_MAX)
          IN  /\ (seq' = seq + 1 /\ fileSrc'[d] = Cached(Bytes(seq', TemplateLen)))
                    => \/ /\ wiki_info'[d] = wiki_info[d]
                          /\ wiki_versions'[d] = wiki_versions[d]
                       \/ /\ \E r \in wiki_info'[d] : r.wikiId = d
                          /\ {r.chunkIdx : r \in ofTs(wiki_versions'[d], now')}
                                = 1..Len(template)
                          /\ \A r \in ofTs(wiki_versions'[d], now') :
                                r.chunksTotal = Len(template)
              /\ \A u \in DOMAIN up :
                    (up[u].pc = "bytes" /\ up[u].doc = d /\ up'[u].pc = "idle"
                                       /\ resp'.op = "upsert")
                    => LET n == Len(chunkify(up[u].whole, CHUNK_SIZE_MAX))
                           mine == ofTs(wiki_versions'[d], up[u].tsMs)
                       IN  /\ \/ mine = {}
                              \/ /\ {r.chunkIdx : r \in mine} = 1..n
                                 /\ \A r \in mine : r.chunksTotal = n
                           /\ resp'.fault = "write"
                                => mine = {} /\ wiki_versions'[d] = wiki_versions[d]
              /\ (wiki_info[d] = {} /\ wiki_info'[d] # {})
                    => \E r \in CompleteRows(wiki_versions'[d], d) : r.tsMs = now'
       ]_vars

\* C26 witness: a statement of the buffered transaction threw after others
\* had been executed, on a document that has its identity row.
C26_Witness ==
    /\ resp.op = "upsert" /\ resp.fault = "write" /\ resp.undone >= 1
    /\ wiki_info[resp.who] # {}
    /\ CompleteRows(wiki_versions[resp.who], resp.who) # {}


\* C27: whenever a document is Bound its store holds at least one complete
\* version, so getFileSrc never fails for lack of content; the latest version
\* completed since the document was created is among them, whatever the
\* retention step has deleted.
C27_BoundHasContent ==
    \A d \in Docs :
        Bound(d)
        => /\ ChunksInfo(wiki_versions[d], d) # {}
           /\ \A o \in GetFileSrcOutcomes(d, d) : o.status = 200
           /\ hist[d].versions # {}
                => \E r \in CompleteRows(wiki_versions[d], d) :
                       r.tsMs = Max(hist[d].versions)

\* C27 witness: the retention step has deleted versions of a Bound document.
C27_Witness ==
    \E d \in Docs :
        /\ Bound(d)
        /\ resp.op = "upsert" /\ resp.who = d /\ resp.ok
        /\ Cardinality(hist[d].versions) > RETAINED_VERSIONS_NUM
        /\ \E t \in hist[d].versions : \A r \in wiki_versions[d] : r.tsMs # t


\* C28: in every store state a version that has a terminal row with
\* chunksTotal = n consists of exactly the rows with chunkIdx 1..n, each
\* once; in a version written by the streaming path (one with rows that
\* carry no chunksTotal) only the row with the highest chunkIdx carries
\* chunksTotal, and its payload is empty.
C28_VersionStructure ==
    \A d \in Docs : \A t \in CompleteRows(wiki_versions[d], d) :
        LET rows == VersionRows(wiki_versions[d], d, t.tsMs)
            n == t.chunksTotal
        IN  /\ {r.chunkIdx : r \in rows} = 1..n
            /\ Cardinality(rows) = n
            /\ (\E r \in rows : r.chunksTotal = NULL)
                  => \A r \in rows :
                        r.chunksTotal # NULL
                        => r.chunkIdx = n /\ byteLength(r.src) = 0


\* C29: a document object that restarts with an identity row in its store
\* wakes up Bound to the wikiId and tenantId of that row, with an empty
\* cache and an unchanged store; and as long as it is Bound with the cache
\* still empty after the restart, getFileSrc answers 200 with the bytes of
\* the complete version that has the greatest timestamp.
C29_RestartDurable ==
    /\ [][\A d \in Docs :
             (/\ faults' = faults + 1
              /\ resp'.op = "evicted" /\ resp'.who = d /\ tcall' = tcall
              /\ wiki_info[d] # {})
             => /\ Bound(d)'
                /\ \E row \in wiki_info[d] :
                      wikiId'[d] = row.wikiId /\ wikiTenantId'[d] = row.tenantId
                /\ Bound(d) => /\ wikiId'[d] = wikiId[d]
                               /\ wikiTenantId'[d] = wikiTenantId[d]
                /\ ~fileSrc'[d].has
                /\ wiki_versions'[d] = wiki_versions[d]
                /\ wiki_info'[d] = wiki_info[d]
          ]_vars
    /\ [](\A d \in Docs :
             (resp.op = "evicted" /\ resp.who = d /\ Bound(d) /\ ~fileSrc[d].has)
             => LET complete == {r.tsMs : r \in CompleteRows(wiki_versions[d], d)}
                    latest == VersionRows(wiki_versions[d], d, Max(complete))
                IN  /\ complete # {}
                    /\ \A o \in GetFileSrcOutcomes(d, d) :
                          /\ o.status = 200
                          /\ o.body = mergeArrayBuffers(SrcAscFrom(latest, 0)))

\* C29 witness: the object restarted with a populated cache gone and more
\* than one complete version in its store, and is Bound.
C29_Witness ==
    \E d \in Docs :
        /\ resp.op = "evicted" /\ resp.who = d
        /\ Bound(d) /\ wikiTenantId[d] = hist[d].owner
        /\ hist[d].oks >= 1
        /\ Cardinality({r.tsMs : r \in CompleteRows(wiki_versions[d], d)}) >= 2


\* C30: in every persisted state, whenever the identity table of an object
\* exists (tenant_info of a tenant object, wiki_info of a document object) it
\* holds exactly one row, so the lookup of the constructor never fails and
\* every object can be woken.
C30_IdentityRowPresent ==
    /\ \A d \in Docs :
          /\ TablesExist(d) => Cardinality(wiki_info[d]) = 1
          /\ wikiAlive[d]
    /\ \A a \in Tenants :
          tenantSchema[a] >= 1 => Cardinality(tenant_info[a]) = 1


\* C31: whenever no createWiki or deleteWiki is in flight on a tenant object
\* (also after an eviction between the steps on the two objects), the wikiIds
\* of its index rows are exactly the documents that are Bound with the tenant
\* id the object has claimed.
C31_IndexAgreesWithActors ==
    \A a \in Tenants :
        tcall[a].pc = "idle"
        => {r.wikiId : r \in wikis[a]}
              = {d \in Docs : Bound(d) /\ tenantId[a] # ""
                                       /\ wikiTenantId[d] = tenantId[a]}


\* C32: an upsert whose content-length hint is supplied takes the buffered
\* path exactly when the hint is below BYTE_SIZE_ATONCE_THRESHOLD, for every
\* value of the hint, 0 included (here every call is hinted with the length
\* of its body).
C32_HintSelectsPath ==
    \A u \in DOMAIN up :
        up[u].pc # "idle"
        => (up[u].pc = "bytes"
              <=> byteLength(up[u].whole) < BYTE_SIZE_ATONCE_THRESHOLD)


\* C33: a streaming upsert of a finite byte source that meets no fault
\* terminates with ok; while it runs its version has no terminal row, and the
\* step that ends it writes the terminal row, the only row of the version
\* that carries chunksTotal, with the greatest chunkIdx, after the data rows
\* that hold the whole source.
C33_StreamingTerminates ==
    /\ \A u \in UpsertCalls :
          (up[u].pc = "read")
             ~> (up[u].pc = "idle" /\ resp.op = "upsert" /\ resp.ok)
    /\ [](\A u \in UpsertCalls :
             up[u].pc = "read"
             => \A r \in VersionRows(wiki_versions[up[u].doc], up[u].doc, up[u].tsMs) :
                   r.chunksTotal = NULL /\ r.chunkIdx <= up[u].chunkIdx)
    /\ [][\A u \in UpsertCalls :
             (up[u].pc = "read" /\ up'[u].pc = "idle")
             => LET d == up[u].doc
                    mine == VersionRows(wiki_versions'[d], d, up[u].tsMs)
                    last == {r \in mine : r.chunksTotal # NULL}
                IN  /\ resp'.op = "upsert" /\ resp'.ok
                    /\ Cardinality(last) = 1
                    /\ \A t \in last : \A r \in mine :
                          /\ r.chunkIdx <= t.chunkIdx
                          /\ t.chunksTotal = t.chunkIdx
                          /\ t.chunkIdx = Cardinality(mine)
                    /\ mergeArrayBuffers(SrcAscFrom(mine, 0)) = up[u].whole
          ]_vars

\* C33 witness: a streaming upsert of a source longer than two chunks has
\* returned ok.
C33_Witness ==
    /\ resp.op = "upsert" /\ resp.ok
    /\ byteLength(resp.body) > 2 * CHUNK_SIZE_MAX
    /\ \E r \in CompleteRows(wiki_versions[resp.who], resp.who) :
          r.chunkIdx = 4 /\ byteLength(r.src) = 0


\* C34: when two upserts on a document have both returned ok, overlapping or
\* not, and no call is in flight, the content served is that of the upsert
\* that returned last (stated for an empty cache, so that what is served is
\* what the store holds).
C34_LastCompletedServed ==
    \A d \in Docs :
        (/\ resp.op = "upsert" /\ resp.who = d /\ resp.ok
         /\ hist[d].oks >= 2
         /\ Bound(d) /\ ~fileSrc[d].has
         /\ \A u \in DOMAIN up : up[u].pc = "idle")
        => \A o \in GetFileSrcOutcomes(d, d) :
              o.status = 200 /\ o.body = resp.body


\* C35: when createWiki calls on one tenant object interleave at the await of
\* create, the calls in flight hold distinct document ids; a call that
\* returns ok adds its own row to the index and removes or replaces no other
\* row, a call that fails leaves the index as it is; and the tenant is
\* claimed once, by the id the calls present.
C35_InterleavedCreates ==
    /\ [](
           /\ \A c1, c2 \in CreateCalls :
                (c1 # c2 /\ tcall[c1].pc = "created" /\ tcall[c2].pc = "created")
                => tcall[c1].wikiId # tcall[c2].wikiId
           /\ tenantSchema["T1"] >= 1
                => (tenant_info["T1"] = {"T1"} /\ tenantId["T1"] = "T1")
           /\ \A r \in wikis["T1"] :
                /\ Bound(r.wikiId) /\ wikiTenantId[r.wikiId] = r.tenantId
                /\ \A q \in wikis["T1"] : q.wikiId = r.wikiId => q = r)
    /\ [][\A c \in CreateCalls :
             (tcall[c].pc = "created" /\ tcall'[c].pc = "idle")
             => /\ wikis["T1"] \subseteq wikis'["T1"]
                /\ \A r \in wikis["T1"] : r.wikiId # tcall[c].wikiId
                /\ IF tcall[c].ok
                   THEN \E r \in wikis'["T1"] :
                           /\ r.wikiId = tcall[c].wikiId /\ r.name = tcall[c].name
                           /\ wikis'["T1"] = wikis["T1"] \cup {r}
                           /\ resp'.ok /\ resp'.wikiId = r.wikiId
                   ELSE wikis'["T1"] = wikis["T1"] /\ ~resp'.ok
          ]_vars

\* C35 witness: two calls were suspended together and both have returned ok;
\* the index holds a row for each.
C35_Witness ==
    /\ resp.op = "createWiki" /\ resp.ok /\ resp.wikiId = "d1"
    /\ \A c \in CreateCalls : tcall[c].pc = "idle"
    /\ {r.wikiId : r \in wikis["T1"]} = {"d1", "d2"}


\* C36: retention heals itself: an upsert that returns ok, its retention step
\* having succeeded, leaves at most RETAINED_VERSIONS_NUM complete versions,
\* also when the store held more than that before it because the retention
\* step of an earlier upsert had thrown after the version was written.
C36_RetentionHeals ==
    [][\A u \in DOMAIN up :
          (up[u].pc # "idle" /\ up'[u].pc = "idle"
             /\ resp'.op = "upsert" /\ resp'.ok)
          => LET d == up[u].doc
                 before == {r.tsMs : r \in CompleteRows(wiki_versions[d], d)}
                 after == {r.tsMs : r \in CompleteRows(wiki_versions'[d], d)}
             IN  /\ Cardinality(after) <= RETAINED_VERSIONS_NUM
                 /\ Cardinality(before) >= RETAINED_VERSIONS_NUM
                      => /\ Cardinality(after) = RETAINED_VERSIONS_NUM
                         /\ up[u].tsMs \in after
                         /\ \A r \in wiki_versions'[d] :
                               \E t \in after : t <= r.tsMs
       ]_vars

\* C36 witness: the retention step of the upsert that wrote the eleventh or a
\* later version threw, leaving that version in the store, and a later upsert
\* has returned ok with RETAINED_VERSIONS_NUM complete versions left.
C36_Witness ==
    \E d \in Docs :
        /\ resp.op = "upsert" /\ resp.who = d /\ resp.ok
        /\ \E f \in hist[d].failed :
              /\ f.tsMs > RETAINED_VERSIONS_NUM
              /\ f.oks < hist[d].oks
              /\ \E r \in CompleteRows(wiki_versions[d], d) : r.tsMs = f.tsMs
        /\ Cardinality({r.tsMs : r \in CompleteRows(wiki_versions[d], d)})
              = RETAINED_VERSIONS_NUM


\* C37: for every buffer b and chunk size n >= 1, chunkify(b, n) yields
\* ceil(len(b) / n) chunks, each non-empty and at most n long, all but the
\* last exactly n long; the empty buffer yields no chunk; and
\* mergeArrayBuffers of the chunks in order is b.
C37_ChunkifyMerges ==
    (resp.op \in {"chunkify", "mergeArrayBuffers"})
    => LET b == resp.body
           n == resp.taken
           chunks == resp.parts
           len == byteLength(b)
       IN  /\ n >= 1
           /\ (Len(chunks) - 1) * n < len \/ (len = 0 /\ chunks = <<>>)
           /\ len <= Len(chunks) * n
           /\ \A i \in 1..Len(chunks) :
                 /\ byteLength(chunks[i]) >= 1
                 /\ byteLength(chunks[i]) <= n
                 /\ i < Len(chunks) => byteLength(chunks[i]) = n
                 /\ chunks[i] = subarray(b, (i - 1) * n, Min(i * n, len))
           /\ resp.op = "mergeArrayBuffers" => resp.served.body = b

\* C37 witness: a buffer of two runs was cut into more than two chunks, the
\* last one short, and merged again.
C37_Witness ==
    /\ resp.op = "mergeArrayBuffers"
    /\ Len(resp.body) = 2
    /\ Len(resp.parts) > 2
    /\ byteLength(resp.parts[Len(resp.parts)]) < resp.taken
    /\ resp.served.body = resp.body

====
